---- MODULE Spec2Model ----
(***************************************************************************)
(* Model of the tile morphology engine of lib/morphology.cpp (with the     *)
(* strand scheduling helpers of lib/fill_common.cpp).                      *)
(*                                                                         *)
(* Two state machines share the pure definitions below:                    *)
(*   KSpec  one MorphBucket driven over one strand by morph_strand, at the *)
(*          granularity of the rows of MorphBucket::morph;                 *)
(*   Spec   morph(): the caller thread, the worker threads, the            *)
(*          interpreter lock, the shared strand index and the maps.        *)
(***************************************************************************)
EXTENDS Integers, Sequences, FiniteSets, TLC

(***************************************************************************)
(* Program constants.  N and fix15_one are set in headers that are not     *)
(* part of the sources at hand (fill_constants.hpp, fix15.hpp); the        *)
(* reference build has N = 64.  The model scales the tile side down to 4,  *)
(* a multiple of 4 like 64, which the quarter points of can_skip need.     *)
(***************************************************************************)
N == 4
fix15_one == 32768

\* A heap cell that was allocated (new chan_t[..]) and never written, or a
\* read outside a tile: its value is indeterminate.  The marker propagates
\* through every comparison, so a result that depends on such a cell is the
\* marker and equals no channel value.
Uninit == 0 - 1

half_one == fix15_one \div 2
Chan == {0, half_one, fix15_one}

\* f itself.  The comparison makes TLC build the function once instead of
\* evaluating its defining expression at every application.
strict(f) == IF f = f THEN f ELSE f

Min2(a, b) == IF a < b THEN a ELSE b

\* inline chan_t max(chan_t a, chan_t b) / min(chan_t a, chan_t b)
max(a, b) == IF a = Uninit \/ b = Uninit THEN Uninit ELSE IF a > b THEN a ELSE b
min(a, b) == IF a = Uninit \/ b = Uninit THEN Uninit ELSE IF a < b THEN a ELSE b

cmp_apply_swapped(cmp, a, b) == IF cmp = "max" THEN min(a, b) ELSE max(a, b)

\* The template parameter  op cmp  of the bucket's methods.
cmp_apply(cmp, a, b) == IF cmp = "max" THEN max(a, b) ELSE min(a, b)

(***************************************************************************)
(* Tiles.  A tile is a Python array object: ob is its identity ("T" the    *)
(* TRANSPARENT_ALPHA_TILE singleton, "O" the OPAQUE_ALPHA_TILE singleton,  *)
(* "A" any other array), px[y][x] its pixels.                              *)
(***************************************************************************)
TileIdx == 0..(N-1)
uniform_px(v) == [y \in TileIdx |-> [x \in TileIdx |-> v]]
TRANSPARENT_ALPHA_TILE == [ob |-> "T", px |-> uniform_px(0)]
OPAQUE_ALPHA_TILE == [ob |-> "O", px |-> uniform_px(fix15_one)]

\* PixelBuffer::operator()(x, y)
buf_at(buf, x, y) ==
    IF x \in TileIdx /\ y \in TileIdx THEN buf.px[y][x] ELSE Uninit

\* PixelBuffer::is_uniform()
is_uniform(buf) ==
    \A y \in TileIdx : \A x \in TileIdx : buf.px[y][x] = buf.px[0][0]

(***************************************************************************)
(* fill_input_section: copy the w x h rectangle of input_buf that starts   *)
(* at (px_x, px_y) to the rectangle of input that starts at (x, y).        *)
(***************************************************************************)
fill_input_section(x, w, y, h, input_buf, input, px_x, px_y) ==
    strict([y_i \in DOMAIN input |->
        [x_i \in DOMAIN input[y_i] |->
            IF y_i >= y /\ y_i < y + h /\ x_i >= x /\ x_i < x + w
            THEN buf_at(input_buf, px_x + (x_i - x), px_y + (y_i - y))
            ELSE input[y_i][x_i]]])

\* The same swaps taken from the last row to the first.
RECURSIVE swap_rows_downward(_, _, _)
swap_rows_downward(input, i, r) ==
    IF i >= r * 2 THEN input
    ELSE LET j == r * 2 - 1 - i
         IN  swap_rows_downward(
                 [input EXCEPT ![j] = input[N + j], ![N + j] = input[j]],
                 i + 1, r)

\* The row swaps of the from_above branch, for (int i = 0; i < r*2; ++i),
\* one swap after the other.
RECURSIVE swap_rows(_, _, _)
swap_rows(input, i, r) ==
    IF i >= r * 2 THEN input
    ELSE swap_rows([input EXCEPT ![i] = input[N + i], ![N + i] = input[i]],
                   i + 1, r)

\* copy_nine_grid_section of morphology.cpp; grid is in the order of that
\* file's nine_grid: mid, n, e, s, w, ne, se, sw, nw (grid[1] is grid[0] of
\* the code).
copy_nine_grid_section(radius, input, from_above, grid) ==
    LET r == radius
        m == grid[1]
        n == grid[2]
        e == grid[3]
        s == grid[4]
        w == grid[5]
        ne == grid[6]
        se == grid[7]
        sw == grid[8]
        nw == grid[9]
        top ==
            IF from_above
            THEN LET a0 == swap_rows(input, 0, r)
                     a1 == fill_input_section(0, r, 2*r, N-r, w, a0, N-r, r)
                     a2 == fill_input_section(r, N, 2*r, N-r, m, a1, 0, r)
                 IN  fill_input_section(N+r, r, 2*r, N-r, e, a2, 0, r)
            ELSE LET b1 == fill_input_section(0, r, 0, r, nw, input, N-r, N-r)
                     b2 == fill_input_section(r, N, 0, r, n, b1, 0, N-r)
                     b3 == fill_input_section(N+r, r, 0, r, ne, b2, 0, N-r)
                     b4 == fill_input_section(0, r, r, N, w, b3, N-r, 0)
                     b5 == fill_input_section(r, N, r, N, m, b4, 0, 0)
                 IN  fill_input_section(N+r, r, r, N, e, b5, 0, 0)
        c1 == fill_input_section(0, r, N+r, r, sw, top, N-r, 0)
        c2 == fill_input_section(r, N, N+r, r, s, c1, 0, 0)
    IN  fill_input_section(N+r, r, N+r, r, se, c2, 0, 0)

(***************************************************************************)
(* MorphBucket::MorphBucket: the structuring element.                      *)
(***************************************************************************)
\* floor(sqrt(powf(radius + 0.5, 2) - powf(y, 2))): the operand is
\* ((2 radius + 1)^2 - 4 y^2) / 4, exact in float for these magnitudes.
x_offs_of(radius, y) ==
    LET d == (2*radius + 1) * (2*radius + 1) - 4*y*y
    IN  CHOOSE k \in 0..(radius + 1) :
            4*k*k <= d /\ 4*(k + 1)*(k + 1) > d

\* The pad loop left after its first turn.
pad_lengths_one_turn(pad, fst_length) ==
    IF pad < fst_length THEN <<pad>> ELSE <<>>

\* for (int pad = 1; pad < fst_length; pad *= 2) se_lengths.push_back(pad)
RECURSIVE pad_lengths(_, _)
pad_lengths(pad, fst_length) ==
    IF pad < fst_length THEN <<pad>> \o pad_lengths(2*pad, fst_length)
    ELSE <<>>

\* The same loop appending the length of every row.
RECURSIVE chord_loop_every_row(_, _, _, _)
chord_loop_every_row(radius, y, lengths, chords) ==
    IF y > 0 THEN [se_lengths |-> lengths, se_chords |-> chords]
    ELSE LET x_offs == x_offs_of(radius, y)
             length == 1 + x_offs * 2
             pushed == Append(lengths, length)
         IN  chord_loop_every_row(radius, y + 1, pushed,
                 [chords EXCEPT ![y + radius] =
                     [x_offset |-> 0 - x_offs,
                      length_index |-> Len(pushed) - 1]])

\* The same loop with the chords starting at the centre column.
RECURSIVE chord_loop_from_centre(_, _, _, _)
chord_loop_from_centre(radius, y, lengths, chords) ==
    IF y > 0 THEN [se_lengths |-> lengths, se_chords |-> chords]
    ELSE LET x_offs == x_offs_of(radius, y)
             length == 1 + x_offs * 2
             pushed == IF lengths[Len(lengths)] # length
                       THEN Append(lengths, length) ELSE lengths
         IN  chord_loop_from_centre(radius, y + 1, pushed,
                 [chords EXCEPT ![y + radius] =
                     [x_offset |-> 0,
                      length_index |-> Len(pushed) - 1]])

\* for (int y = -radius; y <= 0; ++y): append unseen chord lengths and set
\* the chord of row y + radius.
RECURSIVE chord_loop(_, _, _, _)
chord_loop(radius, y, lengths, chords) ==
    IF y > 0 THEN [se_lengths |-> lengths, se_chords |-> chords]
    ELSE LET x_offs == x_offs_of(radius, y)
             length == 1 + x_offs * 2
             pushed == IF lengths[Len(lengths)] # length
                       THEN Append(lengths, length) ELSE lengths
         IN  chord_loop(radius, y + 1, pushed,
                 [chords EXCEPT ![y + radius] =
                     [x_offset |-> 0 - x_offs,
                      length_index |-> Len(pushed) - 1]])

structuring_element(radius) ==
    LET fst_length == 1 + 2 * x_offs_of(radius, radius)
        height == radius*2 + 1
        half == chord_loop(radius, 0 - radius, pad_lengths(1, fst_length),
                    [c \in 0..(height-1) |->
                        [x_offset |-> 0, length_index |-> 0]])
    IN  [se_lengths |-> half.se_lengths,
         se_chords |-> [c \in 0..(height-1) |->
                           IF c > radius
                           THEN half.se_chords[radius - (c - radius)]
                           ELSE half.se_chords[c]]]

\* The bucket after construction: input and table are allocated, not set.
MorphBucket(radius) ==
    LET se == structuring_element(radius)
        width == N + 2*radius
        height == radius*2 + 1
    IN  [radius |-> radius, height |-> height,
         se_chords |-> se.se_chords, se_lengths |-> se.se_lengths,
         input |-> [i \in 0..(width-1) |-> [j \in 0..(width-1) |-> Uninit]],
         table |-> [h \in 0..(height-1) |-> [w \in 0..(width-1) |->
                     [t \in 0..(Len(se.se_lengths)-1) |-> Uninit]]]]

\* The rotation taken the other way: the last slot becomes the first.
rotate_lut_up(table, height) ==
    strict([y \in 0..(height-1) |->
               IF y > 0 THEN table[y-1] ELSE table[height-1]])

\* MorphBucket::rotate_lut
rotate_lut(table, height) ==
    strict([y \in 0..(height-1) |->
               IF y < height-1 THEN table[y+1] ELSE table[0]])

\* The len_i loop with the second window always one previous length on, as
\* if every length were twice its predecessor.
RECURSIVE populate_lengths_doubling(_, _, _, _, _, _)
populate_lengths_doubling(row, se_lengths, len_i, prev_len, cmp, width) ==
    IF len_i >= Len(se_lengths) THEN row
    ELSE LET len == se_lengths[len_i + 1]
             len_diff == prev_len
         IN  populate_lengths_doubling(
                 strict([x \in 0..(width-1) |->
                     IF x <= width - len
                     THEN [row[x] EXCEPT ![len_i] =
                              cmp_apply(cmp, row[x][len_i - 1],
                                  IF x + len_diff \in 0..(width-1)
                                  THEN row[x + len_diff][len_i - 1]
                                  ELSE Uninit)]
                     ELSE row[x]]),
                 se_lengths, len_i + 1, len, cmp, width)

\* The len_i loop of populate_row on one table row.
RECURSIVE populate_lengths(_, _, _, _, _, _)
populate_lengths(row, se_lengths, len_i, prev_len, cmp, width) ==
    IF len_i >= Len(se_lengths) THEN row
    ELSE LET len == se_lengths[len_i + 1]
             len_diff == len - prev_len
         IN  populate_lengths(
                 strict([x \in 0..(width-1) |->
                     IF x <= width - len
                     THEN [row[x] EXCEPT ![len_i] =
                              cmp_apply(cmp, row[x][len_i - 1],
                                  IF x + len_diff \in 0..(width-1)
                                  THEN row[x + len_diff][len_i - 1]
                                  ELSE Uninit)]
                     ELSE row[x]]),
                 se_lengths, len_i + 1, len, cmp, width)

\* MorphBucket::populate_row<cmp>(y_row, y_px): the table after the call.
populate_row(mb, table, cmp, y_row, y_px) ==
    LET width == N + 2*mb.radius
        row0 == strict([x \in 0..(width-1) |->
                    [table[y_row][x] EXCEPT ![0] = mb.input[y_px][x]]])
    IN  [table EXCEPT ![y_row] =
            populate_lengths(row0, mb.se_lengths, 1, 1, cmp, width)]

(***************************************************************************)
(* MorphBucket::morph<init, lim, cmp>(can_update, dst), in its three       *)
(* parts: the population before the first row, the output of one row, and  *)
(* the step to the next row.                                               *)
(***************************************************************************)
\* for (int dy = 0; dy < height; ++dy) populate_row<cmp>(dy, dy)
RECURSIVE populate_all(_, _, _, _)
populate_all(mb, table, cmp, dy) ==
    IF dy >= mb.height THEN table
    ELSE populate_all(mb, populate_row(mb, table, cmp, dy, dy), cmp, dy + 1)

\* if (can_update) { populate_row(0, 2*radius); rotate_lut(); } else { ... }
morph_begin(mb, can_update, cmp) ==
    IF can_update
    THEN rotate_lut(populate_row(mb, mb.table, cmp, 0, 2*mb.radius), mb.height)
    ELSE populate_all(mb, mb.table, cmp, 0)

\* The chord loop of one output pixel, with its break on ext == lim.
RECURSIVE chord_fold(_, _, _, _, _, _, _)
chord_fold(mb, table, x, c, ext, lim, cmp) ==
    IF c >= mb.height THEN ext
    ELSE LET ch == mb.se_chords[c]
             col == x + ch.x_offset + mb.radius
             cell == IF col \in 0..(N + 2*mb.radius - 1)
                        /\ ch.length_index \in 0..(Len(mb.se_lengths) - 1)
                     THEN table[c][col][ch.length_index] ELSE Uninit
             next == cmp_apply(cmp, ext, cell)
         IN  IF next = lim THEN next
             ELSE chord_fold(mb, table, x, c + 1, next, lim, cmp)

\* for (int x = 0; x < N; ++x) { ...; dst_px.write(ext); }
morph_emit_row(mb, table, init, lim, cmp) ==
    strict([x \in TileIdx |-> chord_fold(mb, table, x, 0, init, lim, cmp)])

\* if (y < N-1) { populate_row<cmp>(0, y + 2*radius + 1); rotate_lut(); }
morph_next_row(mb, table, y, cmp) ==
    IF y < N - 1
    THEN rotate_lut(populate_row(mb, table, cmp, 0, y + 2*mb.radius + 1),
                    mb.height)
    ELSE table

\* for (int y = 0; y < N; ++y) of MorphBucket::morph
RECURSIVE morph_rows(_, _, _, _, _, _, _)
morph_rows(mb, table, y, dst, init, lim, cmp) ==
    IF y >= N THEN [table |-> table, dst |-> dst]
    ELSE morph_rows(mb, morph_next_row(mb, table, y, cmp), y + 1,
             [dst EXCEPT ![y] = morph_emit_row(mb, table, init, lim, cmp)],
             init, lim, cmp)

\* PyArray_EMPTY(2, dims, NPY_USHORT, 0): a new array, its pixels not set.
empty_array == uniform_px(Uninit)

MorphBucket_morph(mb, can_update, init, lim, cmp) ==
    morph_rows(mb, morph_begin(mb, can_update, cmp), 0, empty_array,
               init, lim, cmp)

(***************************************************************************)
(* The fast path.                                                          *)
(***************************************************************************)
\* check_lim(lim, buf, cx, cy, w)
check_lim(lim, buf, cx, cy, w) ==
    \E y \in 0..1 : \E x \in (0 - w)..w :
        \/ buf_at(buf, cx + x, cy + y) = lim
        \/ buf_at(buf, cx + y, cy + x) = lim

\* const int max_search_radius = 15: with N = 64 the widest cross that
\* stays inside the tile around the quarter points, N/4 - 1.  Scaled with N.
max_search_radius == N \div 4 - 1

\* const int r_limit = (N * sqrt(2)) / 2, truncated: floor(N / sqrt(2)).
r_limit == CHOOSE k \in 0..N : 2*k*k <= N*N /\ 2*(k + 1)*(k + 1) > N*N

\* MorphBucket::can_skip<lim>(buf)
can_skip_any_quarter(radius, lim, buf) ==
    LET r == radius
        range1 == Min2(r - r_limit, max_search_radius)
        half == N \div 2 - 1
        range2 == Min2(r - (r_limit \div 2), max_search_radius)
        qrtr == N \div 4
        r_px == 0 - 1
    IN  \/ r > r_limit /\ check_lim(lim, buf, half, half, range1)
        \/ /\ r > r_limit \div 2
           /\ \/ check_lim(lim, buf, r_px + qrtr, r_px + qrtr, range2)
              \/ check_lim(lim, buf, r_px + 3*qrtr, r_px + qrtr, range2)
              \/ check_lim(lim, buf, r_px + 3*qrtr, r_px + 3*qrtr, range2)
              \/ check_lim(lim, buf, r_px + qrtr, r_px + 3*qrtr, range2)

can_skip(radius, lim, buf) ==
    LET r == radius
        range1 == Min2(r - r_limit, max_search_radius)
        half == N \div 2 - 1
        range2 == Min2(r - (r_limit \div 2), max_search_radius)
        qrtr == N \div 4
        r_px == 0 - 1
    IN  \/ r > r_limit /\ check_lim(lim, buf, half, half, range1)
        \/ /\ r > r_limit \div 2
           /\ check_lim(lim, buf, r_px + qrtr, r_px + qrtr, range2)
           /\ check_lim(lim, buf, r_px + 3*qrtr, r_px + qrtr, range2)
           /\ check_lim(lim, buf, r_px + 3*qrtr, r_px + 3*qrtr, range2)
           /\ check_lim(lim, buf, r_px + qrtr, r_px + 3*qrtr, range2)

\* generic_morph<init, lim, cmp>(mb, can_update, input): the pair it returns
\* (first, second) and the bucket it leaves.
generic_morph_skip_is_update(mb, can_update, input, init, lim, cmp) ==
    IF can_skip(mb.radius, lim, input[1])
    THEN [first |-> TRUE,
          second |-> IF lim = 0 THEN TRANSPARENT_ALPHA_TILE
                     ELSE OPAQUE_ALPHA_TILE,
          mb |-> mb]
    ELSE LET initiated == [mb EXCEPT !.input =
                 copy_nine_grid_section(mb.radius, mb.input, can_update, input)]
             done == MorphBucket_morph(initiated, can_update, init, lim, cmp)
         IN  [first |-> TRUE,
              second |-> [ob |-> "A", px |-> done.dst],
              mb |-> [initiated EXCEPT !.table = done.table]]

generic_morph(mb, can_update, input, init, lim, cmp) ==
    IF can_skip(mb.radius, lim, input[1])
    THEN [first |-> FALSE,
          second |-> IF lim = 0 THEN TRANSPARENT_ALPHA_TILE
                     ELSE OPAQUE_ALPHA_TILE,
          mb |-> mb]
    ELSE LET initiated == [mb EXCEPT !.input =
                 copy_nine_grid_section(mb.radius, mb.input, can_update, input)]
             done == MorphBucket_morph(initiated, can_update, init, lim, cmp)
         IN  [first |-> TRUE,
              second |-> [ob |-> "A", px |-> done.dst],
              mb |-> [initiated EXCEPT !.table = done.table]]

dilate(mb, can_update, input) ==
    generic_morph(mb, can_update, input, 0, fix15_one, "max")

erode(mb, can_update, input) ==
    generic_morph(mb, can_update, input, fix15_one, 0, "min")

\* auto op = offset > 0 ? dilate : erode
morph_op(offset, mb, can_update, input) ==
    IF offset > 0 THEN dilate(mb, can_update, input)
    ELSE erode(mb, can_update, input)

(***************************************************************************)
(* nine_grid of morphology.cpp: the tile and its 8 neighbours, the         *)
(* transparent singleton where the map has no tile.  Order 8 1 5 / 4 0 2 / *)
(* 7 3 6.  A tile map is a function from coordinates <<x, y>> to tiles.    *)
(***************************************************************************)
xoffs == <<0, 0, 1, 0, 0 - 1, 1, 1, 0 - 1, 0 - 1>>
yoffs == <<0, 0 - 1, 0, 1, 0, 0 - 1, 1, 1, 0 - 1>>

nine_grid(tile_coord, tiles) ==
    strict([i \in 1..9 |->
        LET c == <<tile_coord[1] + xoffs[i], tile_coord[2] + yoffs[i]>>
        IN  IF c \in DOMAIN tiles THEN tiles[c] ELSE TRANSPARENT_ALPHA_TILE])

empty_result_by_source(offset, src_buf, result_buf) ==
    IF result_buf.ob = "T" THEN TRUE
    ELSE IF offset > 0 THEN src_buf.ob = "T"
    ELSE buf_at(result_buf, 0, 0) = 0 /\ is_uniform(result_buf)

(***************************************************************************)
(* nine_grid of fill_common.cpp: entry i is the tile at                    *)
(* (x + offs[i % 3], y + offs[i / 3]), i = 0..8.                          *)
(***************************************************************************)
offs == <<0 - 1, 0, 1>>

nine_grid_fill_common_transposed(tile_coord, tiles) ==
    strict([i \in 1..9 |->
        LET c == <<tile_coord[1] + offs[((i - 1) \div 3) + 1],
                   tile_coord[2] + offs[((i - 1) % 3) + 1]>>
        IN  IF c \in DOMAIN tiles THEN tiles[c] ELSE TRANSPARENT_ALPHA_TILE])

nine_grid_fill_common(tile_coord, tiles) ==
    strict([i \in 1..9 |->
        LET c == <<tile_coord[1] + offs[((i - 1) % 3) + 1],
                   tile_coord[2] + offs[((i - 1) \div 3) + 1]>>
        IN  IF c \in DOMAIN tiles THEN tiles[c] ELSE TRANSPARENT_ALPHA_TILE])

\* empty_result(offset, src_buf, result_buf)
\* The same copy always started at pixel (0, 0) of the tile.
init_rect_from_origin(x, w, y, h, input_buf, input, px_x, px_y) ==
    strict([y_i \in DOMAIN input |->
        [x_i \in DOMAIN input[y_i] |->
            IF y_i >= y /\ y_i < y + h /\ x_i >= x /\ x_i < x + w
            THEN buf_at(input_buf, x_i - x, y_i - y)
            ELSE input[y_i][x_i]]])

\* init_rect of fill_common.cpp: copy the w x h rectangle of input_buf that
\* starts at (px_x, px_y) to the rectangle of input that starts at (x, y).
init_rect(x, w, y, h, input_buf, input, px_x, px_y) ==
    strict([y_i \in DOMAIN input |->
        [x_i \in DOMAIN input[y_i] |->
            IF y_i >= y /\ y_i < y + h /\ x_i >= x /\ x_i < x + w
            THEN buf_at(input_buf, px_x + (x_i - x), px_y + (y_i - y))
            ELSE input[y_i][x_i]]])

\* init_from_nine_grid of fill_common.cpp; grid is in the order of that
\* file's nine_grid (grid[1] is grid[0] of the code), B is N - r and E is
\* N + r.
init_from_nine_grid(radius, input, from_above, grid) ==
    LET r == radius
        B == N - r
        E == N + r
        top ==
            IF from_above
            THEN LET a0 == swap_rows(input, 0, r)
                     a1 == init_rect(0, r, 2*r, B, grid[4], a0, B, r)
                     a2 == init_rect(r, N, 2*r, B, grid[5], a1, 0, r)
                 IN  init_rect(E, r, 2*r, B, grid[6], a2, 0, r)
            ELSE LET b1 == init_rect(0, r, 0, r, grid[1], input, B, B)
                     b2 == init_rect(r, N, 0, r, grid[2], b1, 0, B)
                     b3 == init_rect(E, r, 0, r, grid[3], b2, 0, B)
                     b4 == init_rect(0, r, r, N, grid[4], b3, B, 0)
                     b5 == init_rect(r, N, r, N, grid[5], b4, 0, 0)
                 IN  init_rect(E, r, r, N, grid[6], b5, 0, 0)
        c1 == init_rect(0, r, E, r, grid[7], top, B, 0)
        c2 == init_rect(r, N, E, r, grid[8], c1, 0, 0)
    IN  init_rect(E, r, E, r, grid[9], c2, 0, 0)

\* num_strand_workers of fill_common.cpp; max_threads is what
\* std::thread::hardware_concurrency() returns.
num_strand_workers(max_threads, n_strands, min_strands_per_worker) ==
    Min2(max_threads, n_strands \div min_strands_per_worker)

empty_result(offset, src_buf, result_buf) ==
    IF result_buf.ob = "T" THEN TRUE
    ELSE IF offset > 0 /\ src_buf.ob # "T" THEN FALSE
    ELSE buf_at(result_buf, 0, 0) = 0 /\ is_uniform(result_buf)

\* PyDict_SetItem(d, key, value)
dict_set(d, key, value) ==
    [k \in DOMAIN d \cup {key} |-> IF k = key THEN value ELSE d[k]]

\* PyDict_Update(a, b)
dict_update(a, b) ==
    [k \in DOMAIN a \cup DOMAIN b |-> IF k \in DOMAIN b THEN b[k] ELSE a[k]]

(***************************************************************************)
(* Blur.  The bucket's radius is (factors.size() - 1) / 2, which is 5 at   *)
(* the least, more than the side N of the scaled tile of the other         *)
(* operations: the tiles that are blurred have the side BlurN, and         *)
(* fill_input_section and copy_nine_grid_section are written out for that  *)
(* side.                                                                   *)
(***************************************************************************)
BlurN == 12
BlurIdx == 0..(BlurN - 1)

\* (a * b) >> 15 on fix15_t, an unsigned 32 bit integer; with a channel
\* value and a blur factor the product stays below 2^31.
fix15_mul(a, b) == (a * b) \div 32768

fix15_short_clamp(n) == IF n > fix15_one THEN fix15_one ELSE n

\* blur_factors(r): the values (fix15_t)(fix15_one * fac) | 3 for
\* i = 0 .. prelim_size - 1, with sigma = 0.3 * r + 0.3,
\* prelim_size = 6 * ceil(sigma + 1), center = prelim_size / 2, d = center - i
\* and fac = mul * exp(-d * d * exp_mul), as the float and double
\* operations of the function give them.
blur_factors(r) ==
    CASE r = 1 -> <<3, 3, 3, 3, 87, 5435, 21787, 5435, 87, 3, 3, 3>>
      [] r = 2 -> <<3, 3, 3, 59, 1231, 7835, 14527, 7835, 1231, 59, 3, 3>>
      [] r = 3 -> <<3, 3, 3, 3, 3, 43, 479, 2719, 7699, 10895, 7699, 2719,
                    479, 43, 3, 3, 3, 3>>
      [] r = 4 -> <<3, 3, 3, 3, 35, 251, 1179, 3583, 6979, 8715, 6979, 3583,
                    1179, 251, 35, 3, 3, 3>>
      [] r = 5 -> <<3, 3, 3, 31, 155, 615, 1811, 3919, 6223, 7263, 6223, 3919,
                    1811, 615, 155, 31, 3, 3>>
      [] r = 6 -> <<3, 3, 3, 3, 7, 27, 107, 367, 1015, 2243, 3955, 5559, 6227,
                    5559, 3955, 2243, 1015, 367, 107, 27, 7, 3, 3, 3>>

\* BlurBucket::BlurBucket: the buffers are allocated, output[0][0] is set.
BlurBucket(r) ==
    LET factors == blur_factors(r)
        radius == (Len(factors) - 1) \div 2
        d == BlurN + radius * 2
    IN  [factors |-> factors, radius |-> radius,
         input_full |-> [i \in 0..(d-1) |-> [j \in 0..(d-1) |-> Uninit]],
         input_vert |-> [i \in 0..(d-1) |-> [j \in BlurIdx |-> Uninit]],
         output |-> [i \in BlurIdx |-> [j \in BlurIdx |->
                        IF i = 0 /\ j = 0 THEN 0 ELSE Uninit]]]

\* PixelBuffer::operator()(x, y) on a tile of side BlurN
blur_buf_at(buf, x, y) ==
    IF x \in BlurIdx /\ y \in BlurIdx THEN buf.px[y][x] ELSE Uninit

\* fill_input_section for tiles of side BlurN
blur_fill_input_section(x, w, y, h, input_buf, input, px_x, px_y) ==
    strict([y_i \in DOMAIN input |->
        [x_i \in DOMAIN input[y_i] |->
            IF y_i >= y /\ y_i < y + h /\ x_i >= x /\ x_i < x + w
            THEN blur_buf_at(input_buf, px_x + (x_i - x), px_y + (y_i - y))
            ELSE input[y_i][x_i]]])

\* The row swaps of the from_above branch for tiles of side BlurN
RECURSIVE blur_swap_rows(_, _, _)
blur_swap_rows(input, i, r) ==
    IF i >= r * 2 THEN input
    ELSE blur_swap_rows(
             [input EXCEPT ![i] = input[BlurN + i], ![BlurN + i] = input[i]],
             i + 1, r)

\* copy_nine_grid_section for tiles of side BlurN
blur_copy_nine_grid_section(radius, input, from_above, grid) ==
    LET r == radius
        m == grid[1]
        n == grid[2]
        e == grid[3]
        s == grid[4]
        w == grid[5]
        ne == grid[6]
        se == grid[7]
        sw == grid[8]
        nw == grid[9]
        top ==
            IF from_above
            THEN LET a0 == blur_swap_rows(input, 0, r)
                     a1 == blur_fill_input_section(0, r, 2*r, BlurN-r, w, a0,
                                                   BlurN-r, r)
                     a2 == blur_fill_input_section(r, BlurN, 2*r, BlurN-r, m,
                                                   a1, 0, r)
                 IN  blur_fill_input_section(BlurN+r, r, 2*r, BlurN-r, e, a2,
                                             0, r)
            ELSE LET b1 == blur_fill_input_section(0, r, 0, r, nw, input,
                                                   BlurN-r, BlurN-r)
                     b2 == blur_fill_input_section(r, BlurN, 0, r, n, b1, 0,
                                                   BlurN-r)
                     b3 == blur_fill_input_section(BlurN+r, r, 0, r, ne, b2, 0,
                                                   BlurN-r)
                     b4 == blur_fill_input_section(0, r, r, BlurN, w, b3,
                                                   BlurN-r, 0)
                     b5 == blur_fill_input_section(r, BlurN, r, BlurN, m, b4,
                                                   0, 0)
                 IN  blur_fill_input_section(BlurN+r, r, r, BlurN, e, b5, 0, 0)
        c1 == blur_fill_input_section(0, r, BlurN+r, r, sw, top, BlurN-r, 0)
        c2 == blur_fill_input_section(r, BlurN, BlurN+r, r, s, c1, 0, 0)
    IN  blur_fill_input_section(BlurN+r, r, BlurN+r, r, se, c2, 0, 0)

\* blurred after for (xoffs = -r; xoffs < r + 1; xoffs++), the values
\* taken from in_at(xoffs + r)
RECURSIVE blur_sum(_, _, _, _)
blur_sum(in_at, factors, k, last) ==
    IF k > last THEN 0
    ELSE fix15_mul(in_at[k], factors[k + 1])
         + blur_sum(in_at, factors, k + 1, last)

\* BlurBucket::blur: the horizontal pass to input_vert, the vertical pass
\* to output, output written to out_tile.
BlurBucket_blur(bb) ==
    LET r == bb.radius
        vert == strict([y \in 0..(BlurN + 2*r - 1) |-> [x \in BlurIdx |->
                    fix15_short_clamp(blur_sum(
                        [k \in 0..(2*r) |-> bb.input_full[y][x + k]],
                        bb.factors, 0, 2*r))]])
        output == strict([y \in BlurIdx |-> [x \in BlurIdx |->
                    fix15_short_clamp(blur_sum(
                        [k \in 0..(2*r) |-> vert[y + k][x]],
                        bb.factors, 0, 2*r))]])
    IN  [bb |-> [bb EXCEPT !.input_vert = vert, !.output = output],
         out_tile |-> [ob |-> "A", px |-> output]]

\* BlurBucket::initiate
BlurBucket_initiate(bb, can_update, input) ==
    [bb EXCEPT !.input_full =
        blur_copy_nine_grid_section(bb.radius, bb.input_full, can_update,
                                    input)]

\* blur(bb, can_update, mid, dst_tile, n, e, s, w, ne, se, sw, nw): input
\* is mid, n, e, s, w, ne, se, sw, nw.
blur(bb, can_update, input) ==
    BlurBucket_blur(BlurBucket_initiate(bb, can_update, input))

(***************************************************************************)
(* Gap closing: DistanceBucket, dist_search, find_gaps, no_corner_gaps.    *)
(***************************************************************************)
\* DistanceBucket::DistanceBucket: input is allocated, not set.
DistanceBucket(distance) ==
    LET r == N + distance * 2 + 2
    IN  [distance |-> distance,
         input |-> [i \in 0..(r-1) |-> [j \in 0..(r-1) |-> Uninit]]]

\* Coordinate reflection/rotation; a coord is <<x, y>>.
top_right(x, y, xo, yo) == <<x + xo, y + yo>>
top_centr(x, y, xo, yo) == <<x - yo, y - xo>>
bot_centr(x, y, xo, yo) == <<x - yo, y + xo>>
bot_right(x, y, xo, yo) == <<x + xo, y - yo>>

\* A call through the function pointer rot_op.
rot_op(op, x, y, xo, yo) ==
    CASE op = "top_right" -> top_right(x, y, xo, yo)
      [] op = "top_centr" -> top_centr(x, y, xo, yo)
      [] op = "bot_centr" -> bot_centr(x, y, xo, yo)
      [] op = "bot_right" -> bot_right(x, y, xo, yo)

\* The calls upd_dist(lc, dists, new_dst) of the double-width distance
\* assignment of dist_search, as pairs <<lc, new_dst>>: for (cy = 1;
\* cy < yoffs; ++cy) with cx and tx carried along.  tx is cy * dx, kept
\* here as the numerator tx_num over yoffs - 1; for the denominators that
\* occur with the scaled N the float sums are the exact values where they
\* reach an integer.
RECURSIVE line_marks(_, _, _, _, _, _, _, _, _)
line_marks(op, rx, ry, xo, yo, offs_dst, cy, cx, tx_num) ==
    IF cy >= yo THEN {}
    ELSE LET tx1 == tx_num + xo
             cx1 == IF tx1 \div (yo - 1) > cx THEN cx + 1 ELSE cx
         IN  {<<rot_op(op, rx, ry, cx, 0 - cy), offs_dst>>,
              <<rot_op(op, rx, ry, cx1, 0 - cy), offs_dst>>,
              <<rot_op(op, rx, ry, cx1 + 1, 0 - cy), offs_dst>>}
             \cup line_marks(op, rx, ry, xo, yo, offs_dst, cy + 1, cx1, tx1)

\* The same search returning at once only when both points are zero.
dist_search_both_zero(x, y, dist, alphas, op) ==
    LET d_offs == dist + 1
        rx == x - d_offs
        ry == y - d_offs
        t1 == rot_op(op, x, y, 0, 0 - 1)
        t2 == rot_op(op, x, y, 1, 0 - 1)
    IN  IF alphas[t1[2]][t1[1]] = 0 /\ alphas[t2[2]][t2[1]] = 0 THEN {}
        ELSE UNION {
                 LET offs_dst == (yo - 1) * (yo - 1) + xo * xo
                     c == rot_op(op, x, y, xo, 0 - yo)
                 IN  IF offs_dst < 1 + dist * dist /\ alphas[c[2]][c[1]] = 0
                     THEN line_marks(op, rx, ry, xo, yo, offs_dst, 1, 0, 0)
                     ELSE {}
                 : <<xo, yo>> \in {p \in (0..(dist + 1)) \X (2..(dist + 1)) :
                                      p[1] <= p[2]}}

\* dist_search: the upd_dist calls of one octant search.  The inner loop
\* breaks at the first xoffs with offs_dst >= 1 + dist * dist, and offs_dst
\* grows with xoffs.
dist_search(x, y, dist, alphas, op) ==
    LET d_offs == dist + 1
        rx == x - d_offs
        ry == y - d_offs
        t1 == rot_op(op, x, y, 0, 0 - 1)
        t2 == rot_op(op, x, y, 1, 0 - 1)
    IN  IF alphas[t1[2]][t1[1]] = 0 \/ alphas[t2[2]][t2[1]] = 0 THEN {}
        ELSE UNION {
                 LET offs_dst == (yo - 1) * (yo - 1) + xo * xo
                     c == rot_op(op, x, y, xo, 0 - yo)
                 IN  IF offs_dst < 1 + dist * dist /\ alphas[c[2]][c[1]] = 0
                     THEN line_marks(op, rx, ry, xo, yo, offs_dst, 1, 0, 0)
                     ELSE {}
                 : <<xo, yo>> \in {p \in (0..(dist + 1)) \X (2..(dist + 1)) :
                                      p[1] <= p[2]}}

\* The same without the test curr_dist > new_dst: a pixel that is marked
\* gets the smallest of its marks.
upd_dist_unconditional(dists, marks) ==
    strict([y \in TileIdx |-> [x \in TileIdx |->
        LET ds == {m[2] : m \in {k \in marks : k[1] = <<x, y>>}}
        IN  IF ds # {}
            THEN CHOOSE d \in ds : \A e \in ds : d <= e
            ELSE dists[y][x]]])

\* upd_dist for every call of marks: calls outside the tile return at once,
\* the others leave the smaller of the value and new_dst, so that the order
\* of the calls does not matter.
upd_dist(dists, marks) ==
    strict([y \in TileIdx |-> [x \in TileIdx |->
        LET ds == {m[2] : m \in {k \in marks : k[1] = <<x, y>>}}
        IN  IF \E d \in ds : dists[y][x] > d
            THEN CHOOSE d \in ds : \A e \in ds : d <= e
            ELSE dists[y][x]]])

\* A read outside a tile: the cells of the populated buffer that were read
\* from outside a tile hold whatever was there, outside.
populated(input, outside) ==
    strict([y \in DOMAIN input |-> [x \in DOMAIN input[y] |->
        IF input[y][x] = Uninit THEN outside ELSE input[y][x]]])

reads_outside(input) ==
    \E y \in DOMAIN input : \E x \in DOMAIN input[y] : input[y][x] = Uninit

\* find_gaps: grid is mid, n, e, s, w, ne, se, sw, nw; returns the bucket's
\* input and the radiuses tile.
find_gaps(rb, radiuses, grid, outside) ==
    LET r == rb.distance + 1
        input == populated(
                     copy_nine_grid_section(r, rb.input, FALSE, grid), outside)
        marks == UNION {
            IF input[y][x] = 0
            THEN (IF y >= r
                  THEN dist_search(x, y, rb.distance, input, "top_right")
                       \cup dist_search(x, y, rb.distance, input, "top_centr")
                  ELSE {})
                 \cup
                 (IF y < N + r
                  THEN dist_search(x, y, rb.distance, input, "bot_centr")
                       \cup dist_search(x, y, rb.distance, input, "bot_right")
                  ELSE {})
            ELSE {}
            : <<x, y>> \in (0..(r + N - 2)) \X (0..(2*r + N - 2))}
    IN  [input |-> input, radiuses |-> upd_dist(radiuses, marks)]

\* PixelRef::read() at (px_x, px_y): outside the tile it gives whatever is
\* there, outside.
px_read(tile, px_x, px_y, outside) ==
    IF px_x \in TileIdx /\ px_y \in TileIdx THEN tile.px[px_y][px_x]
    ELSE outside

\* any_unfillable: the inner loop for (; x < xlim; ++x) goes on from the x
\* the row before left; px is at (px_x, px_y).
RECURSIVE any_unfillable_x(_, _, _, _, _, _)
any_unfillable_x(x, xlim, px_x, px_y, tile, outside) ==
    IF x < xlim
    THEN IF px_read(tile, px_x, px_y, outside) = 0
         THEN [found |-> TRUE, x |-> x, px_x |-> px_x]
         ELSE any_unfillable_x(x + 1, xlim, px_x + 1, px_y, tile, outside)
    ELSE [found |-> FALSE, x |-> x, px_x |-> px_x]

RECURSIVE any_unfillable_y(_, _, _, _, _, _, _, _, _)
any_unfillable_y(x, xlim, y, ylim, w, px_x, px_y, tile, outside) ==
    IF y < ylim
    THEN LET row == any_unfillable_x(x, xlim, px_x, px_y, tile, outside)
         IN  IF row.found THEN TRUE
             ELSE any_unfillable_y(row.x, xlim, y + 1, ylim, w,
                                   row.px_x - w, px_y + 1, tile, outside)
    ELSE FALSE

any_unfillable(x, w, y, h, tile, outside) ==
    any_unfillable_y(x, x + w, y, y + h, w, x, y, tile, outside)

no_corner_gaps(d, n, e, s, w, outside) ==
    IF /\ any_unfillable(N-d, d, 0, d, w, outside)
       /\ any_unfillable(0, d, N-d, d, n, outside)
    THEN FALSE
    ELSE IF /\ any_unfillable(N-d, d, N-d, d, w, outside)
            /\ any_unfillable(0, d, 0, d, s, outside)
    THEN FALSE
    ELSE IF /\ any_unfillable(N-d, d, N-d, d, n, outside)
            /\ any_unfillable(0, d, 0, d, e, outside)
    THEN FALSE
    ELSE IF /\ any_unfillable(N-d, d, 0, d, s, outside)
            /\ any_unfillable(0, d, N-d, d, e, outside)
    THEN FALSE
    ELSE TRUE

\* The first read of no_corner_gaps, px.read() at get_pixel(N-d, 0) of the
\* west tile, is outside the tile; for 1 <= d <= N every read is inside.
no_corner_gaps_reads_outside(d) == d >= 1 /\ N - d \notin TileIdx

(***************************************************************************)
(* KSpec: morph_strand on one bucket and one strand, a step per part of    *)
(* generic_morph and per output row of MorphBucket::morph.                 *)
(***************************************************************************)
VARIABLES
    k_offset,      \* offset of morph_strand: > 0 dilates, < 0 erodes
    k_tiles,       \* the tile map
    k_strand,      \* the strand, a sequence of tile coordinates
    k_i,           \* the loop index of morph_strand
    k_pc,          \* where morph_strand is
    k_can_update,  \* can_update of morph_strand
    k_mb,          \* the bucket
    k_y,           \* the row MorphBucket::morph emits next
    k_dst,         \* dst_buf of generic_morph
    k_result,      \* the pair returned by op
    k_morphed      \* the output map

kvars == <<k_offset, k_tiles, k_strand, k_i, k_pc, k_can_update, k_mb, k_y,
           k_dst, k_result, k_morphed>>

VARIABLES
    s_offset,           \* the arguments of morph() ...
    s_tiles,
    s_strands,
    s_tiles_is_dict,    \* PyDict_Check(tiles)
    s_strands_is_list,  \* PyList_CheckExact(strands)
    s_hw,               \* std::thread::hardware_concurrency()
    morphed,            \* the caller's output map
    pc,                 \* where each thread is
    locked,             \* the thread is between Ensure and Release
    gil,                \* the interpreter lock: its holder and depth
    strand_index,       \* the shared strand index
    m_i,                \* i of the caller's loops over the workers
    num_threads,        \* num_threads of morph()
    t_strand,           \* the index of the strand the thread works on
    t_i,                \* i of morph_strand
    t_can_update,       \* can_update of morph_strand
    t_bucket,           \* the thread's MorphBucket
    t_result,           \* result of morph_strand
    w_morphed,          \* the map a worker created
    promise,            \* the worker's promise holds its value
    seq_log,            \* history: the strands the caller started, in order
    claim_count         \* history: how often a worker claimed each index

svars == <<s_offset, s_tiles, s_strands, s_tiles_is_dict, s_strands_is_list,
           s_hw, morphed, pc, locked, gil, strand_index, m_i, num_threads,
           t_strand, t_i, t_can_update, t_bucket, t_result, w_morphed,
           promise, seq_log, claim_count>>

VARIABLES
    n_coord,            \* tile_coord of nine_grid
    n_tiles,            \* tiles of nine_grid
    n_grid,             \* the GridVector returned
    n_pc,               \* "call", then the file whose nine_grid has
                        \* returned, then that its copy has run
    n_radius,           \* radius of the copy into the padded buffer
    n_input             \* the padded buffer

nvars == <<n_coord, n_tiles, n_grid, n_pc, n_radius, n_input>>

VARIABLES
    d_distance,         \* the distance of no_corner_gaps and of the bucket
    d_grid,             \* mid, n, e, s, w, ne, se, sw, nw
    d_bucket,           \* the DistanceBucket rb
    d_radiuses,         \* the array radiuses_arr
    d_radiuses_entry,   \* history: radiuses_arr when find_gaps was called
    d_no_gaps,          \* what no_corner_gaps returned
    d_outside,          \* history: a call has read outside a tile
    d_pc

dvars == <<d_distance, d_grid, d_bucket, d_radiuses, d_radiuses_entry,
           d_no_gaps, d_outside, d_pc>>

VARIABLES
    b_r,                \* the r the BlurBucket was made with
    b_v,                \* the value of every pixel of the nine tiles
    b_bucket,           \* the BlurBucket bb
    b_dst,              \* the array dst_tile
    b_can_update,       \* can_update of the last blur call
    b_calls             \* the number of blur calls so far

bvars == <<b_r, b_v, b_bucket, b_dst, b_can_update, b_calls>>

\* The variables of the specifications of the single functions.
VARIABLES
    p_hw,               \* std::thread::hardware_concurrency()
    p_strands,          \* PyList_GET_SIZE(strands)
    p_pc,               \* where process_strands is
    p_threads,          \* num_threads
    p_i,                \* the index of its loops
    p_queue,            \* the next strand index of work_queue
    p_wpc,              \* where each worker thread is
    p_wmap,             \* the strands in the map of each worker
    p_result,           \* the strands in the map result
    p_spawned           \* history: the number of threads started

pvars == <<p_hw, p_strands, p_pc, p_threads, p_i, p_queue, p_wpc, p_wmap,
           p_result, p_spawned>>

xvars == <<nvars, dvars, bvars, pvars>>

abs(v) == IF v < 0 THEN 0 - v ELSE v

op_init(offset) == IF offset > 0 THEN 0 ELSE fix15_one
op_lim(offset) == IF offset > 0 THEN fix15_one ELSE 0
op_cmp(offset) == IF offset > 0 THEN "max" ELSE "min"

\* The tile at tile coordinate c of the image whose pixel at the global
\* position <<gx, gy>> is F(gx, gy).
tile_px(F(_, _), c) ==
    strict([y \in TileIdx |-> [x \in TileIdx |-> F(N*c[1] + x, N*c[2] + y)]])

\* The sparse tile map of an image over the tile coordinates cs, as flood
\* fill leaves it: no entry for an all-zero tile, the opaque singleton for
\* an all-opaque one.
tile_map(F(_, _), cs) ==
    LET present == {c \in cs : tile_px(F, c) # uniform_px(0)}
    IN  [c \in present |->
            IF tile_px(F, c) = uniform_px(fix15_one) THEN OPAQUE_ALPHA_TILE
            ELSE [ob |-> "A", px |-> tile_px(F, c)]]

\* Bounds of the inputs of KSpec.
KMaxStrand == 2

\* Strands: a column read top to bottom, and one read bottom to top.
KStrands ==
    {[i \in 1..len |-> <<0, i - 1>>] : len \in 1..KMaxStrand}
    \cup {<<<<0, 1>>, <<0, 0>>>>}

\* The tile coordinates around the strands.
KCoords == (0 - 1..1) \X (0 - 1..KMaxStrand)

\* Images: one pixel of value v on a background bg, and periodic patterns.
impulse_map(bg, v, px, py) ==
    LET F(gx, gy) == IF gx = px /\ gy = py THEN v ELSE bg
    IN  tile_map(F, KCoords)

chan_of(i) == IF i = 0 THEN 0 ELSE IF i = 1 THEN half_one ELSE fix15_one

pattern_map(a, b) ==
    LET F(gx, gy) == chan_of(((gx + N) * a + (gy + N) * b + ((gx + N) \div 3))
                             % 3)
    IN  tile_map(F, KCoords)

\* The strand read top to bottom at its longest.
KColumn == [i \in 1..KMaxStrand |-> <<0, i - 1>>]

KInit ==
    /\ k_offset \in {o \in (0 - N)..N : o # 0}
    /\ \/ /\ k_strand = KColumn
          /\ \E px \in (0 - abs(k_offset))..(N + abs(k_offset) - 1) :
             \E py \in (0 - abs(k_offset))..(KMaxStrand*N + abs(k_offset) - 1) :
                k_tiles = impulse_map(op_init(k_offset), op_lim(k_offset),
                                      px, py)
       \/ /\ k_strand \in KStrands
          /\ \E a \in 0..2 : \E b \in 1..2 : k_tiles = pattern_map(a, b)
    /\ k_i = 0
    /\ k_pc = "entry"
    /\ k_can_update = FALSE
    /\ k_mb = MorphBucket(abs(k_offset))
    /\ k_y = 0
    /\ k_dst = empty_array
    /\ k_result = [first |-> FALSE, second |-> TRANSPARENT_ALPHA_TILE]
    /\ k_morphed = <<>>

k_coord == k_strand[k_i + 1]
k_grid == nine_grid(k_coord, k_tiles)

\* for (i = 0; i < strand_size; ++i): the loop ends.
KStrandEnd ==
    /\ k_pc = "entry" /\ k_i >= Len(k_strand)
    /\ k_pc' = "done"
    /\ UNCHANGED <<xvars, svars, k_offset, k_tiles, k_strand, k_i, k_can_update, k_mb, k_y,
                   k_dst, k_result, k_morphed>>

\* generic_morph: can_skip answers, the canonical tile is returned.
KSkip ==
    /\ k_pc = "entry" /\ k_i < Len(k_strand)
    /\ can_skip(k_mb.radius, op_lim(k_offset), k_grid[1]) = TRUE
    /\ k_result' = [first |-> FALSE,
                    second |-> IF op_lim(k_offset) = 0
                               THEN TRANSPARENT_ALPHA_TILE
                               ELSE OPAQUE_ALPHA_TILE]
    /\ k_pc' = "result"
    /\ UNCHANGED <<xvars, svars, k_offset, k_tiles, k_strand, k_i, k_can_update, k_mb, k_y,
                   k_dst, k_morphed>>

\* generic_morph: mb.initiate(can_update, input)
KInitiate ==
    /\ k_pc = "entry" /\ k_i < Len(k_strand)
    /\ can_skip(k_mb.radius, op_lim(k_offset), k_grid[1]) = FALSE
    /\ k_mb' = [k_mb EXCEPT !.input =
           copy_nine_grid_section(k_mb.radius, k_mb.input, k_can_update,
                                  k_grid)]
    /\ k_pc' = "begin"
    /\ UNCHANGED <<xvars, svars, k_offset, k_tiles, k_strand, k_i, k_can_update, k_y,
                   k_dst, k_result, k_morphed>>

\* generic_morph allocates dst_buf; MorphBucket::morph up to its row loop.
KBegin ==
    /\ k_pc = "begin"
    /\ k_mb' = [k_mb EXCEPT !.table =
           morph_begin(k_mb, k_can_update, op_cmp(k_offset))]
    /\ k_dst' = empty_array
    /\ k_y' = 0
    /\ k_pc' = "row"
    /\ UNCHANGED <<xvars, svars, k_offset, k_tiles, k_strand, k_i, k_can_update, k_result,
                   k_morphed>>

\* One turn of for (int y = 0; y < N; ++y); after the last, generic_morph
\* returns (true, dst_buf).
KRow ==
    /\ k_pc = "row"
    /\ LET row == morph_emit_row(k_mb, k_mb.table, op_init(k_offset),
                      op_lim(k_offset), op_cmp(k_offset))
           dst == [k_dst EXCEPT ![k_y] = row]
       IN  /\ k_dst' = dst
           /\ k_mb' = [k_mb EXCEPT !.table =
                  morph_next_row(k_mb, k_mb.table, k_y, op_cmp(k_offset))]
           /\ k_y' = k_y + 1
           /\ IF k_y + 1 < N
              THEN k_pc' = "row" /\ UNCHANGED k_result
              ELSE /\ k_pc' = "result"
                   /\ k_result' = [first |-> TRUE,
                                   second |-> [ob |-> "A", px |-> dst]]
    /\ UNCHANGED <<xvars, svars, k_offset, k_tiles, k_strand, k_i, k_can_update, k_morphed>>

\* morph_strand: can_update = result.first; the tile is added unless
\* empty_result.
KResult ==
    /\ k_pc = "result"
    /\ k_can_update' = k_result.first
    /\ k_morphed' = IF empty_result(k_offset, k_grid[1], k_result.second)
                    THEN k_morphed
                    ELSE dict_set(k_morphed, k_coord, k_result.second)
    /\ k_i' = k_i + 1
    /\ k_pc' = "entry"
    /\ UNCHANGED <<xvars, svars, k_offset, k_tiles, k_strand, k_mb, k_y, k_dst, k_result>>

KNext == KStrandEnd \/ KSkip \/ KInitiate \/ KBegin \/ KRow \/ KResult

(***************************************************************************)
(* Spec: morph().  Thread 0 is the caller, threads 1..num_threads are the  *)
(* workers (worker i of the code is thread i + 1).  Every section between  *)
(* PyGILState_Ensure and PyGILState_Release is two steps: the thread gets  *)
(* the interpreter lock, then runs the section, releases the lock and      *)
(* goes on to the next place where it needs the lock.                      *)
(***************************************************************************)
s_inputs == <<s_offset, s_tiles, s_strands, s_tiles_is_dict,
              s_strands_is_list, s_hw>>

\* Bounds of the inputs of Spec.
MaxStrands == 8
MaxHW == 2

\* int max_by_strands = num_strands / 4
MinStrandsPerWorker == 4

MaxThreads == Min2(MaxHW, MaxStrands \div MinStrandsPerWorker)
Threads == 0..MaxThreads
Workers == 1..MaxThreads
NoThread == 0 - 1
NoBucket == <<>>
NoResult == [first |-> FALSE, second |-> TRANSPARENT_ALPHA_TILE]

\* The strands of the input: strand k lies in the tile column k.  Strand 0
\* is read top to bottom, strand 1 bottom to top, strand 2 is empty.
strand_of(k) ==
    IF k = 0 THEN <<<<0, 0>>, <<0, 1>>>>
    ELSE IF k = 1 THEN <<<<1, 1>>, <<1, 0>>>>
    ELSE IF k = 2 THEN <<>>
    ELSE <<<<k, 0>>>>

\* The image of the input.
s_image(gx, gy) ==
    LET tx == gx \div N
        ty == gy \div N
        x == gx % N
        y == gy % N
    IN  IF ty = 0 /\ tx = 0 THEN (IF x < 2 THEN fix15_one ELSE 0)
        ELSE IF ty = 1 /\ tx = 0 THEN (IF x = 1 /\ y = 2 THEN half_one ELSE 0)
        ELSE IF ty = 0 /\ tx = 1 THEN fix15_one
        ELSE IF ty = 1 /\ tx = 1 THEN (IF y = 0 THEN fix15_one ELSE half_one)
        ELSE IF ty = 0 /\ tx = 4
             THEN (IF x \in 1..2 /\ y \in 1..2 THEN fix15_one ELSE 0)
        ELSE 0

\* The tile map of the input: the tiles of the image that are not empty,
\* and at <<3, 0>> an array whose pixels are all zero.
s_tile_map ==
    dict_set(tile_map(s_image, (0..MaxStrands) \X (0..1)), <<3, 0>>,
             [ob |-> "A", px |-> uniform_px(0)])

\* The output map handed to morph(): it holds a tile of an earlier call.
morphed_at_entry == [c \in {<<0 - 2, 0>>} |-> OPAQUE_ALPHA_TILE]

SOffsets == {0, N + 1, 0 - (N + 1), 1, 0 - 1, N - 1}

SInit ==
    /\ s_offset \in SOffsets
    /\ s_tiles = s_tile_map
    /\ \E ns \in 0..MaxStrands : s_strands = [k \in 1..ns |-> strand_of(k - 1)]
    /\ s_tiles_is_dict \in BOOLEAN
    /\ s_strands_is_list \in BOOLEAN
    /\ (s_tiles_is_dict \/ s_strands_is_list)
    /\ s_hw \in 0..MaxHW
    /\ morphed = morphed_at_entry
    /\ pc = [t \in Threads |-> IF t = 0 THEN "entry" ELSE "unspawned"]
    /\ locked = [t \in Threads |-> FALSE]
    /\ gil = [holder |-> 0, count |-> 1]
    /\ strand_index = 0
    /\ m_i = 0
    /\ num_threads = 0
    /\ t_strand = [t \in Threads |-> 0]
    /\ t_i = [t \in Threads |-> 0]
    /\ t_can_update = [t \in Threads |-> FALSE]
    /\ t_bucket = [t \in Threads |-> NoBucket]
    /\ t_result = [t \in Threads |-> NoResult]
    /\ w_morphed = [t \in Workers |-> <<>>]
    /\ promise = [t \in Workers |-> FALSE]
    /\ seq_log = <<>>
    /\ claim_count = [k \in 0..(MaxStrands - 1) |-> 0]

num_strands == Len(s_strands)

\* PyGILState_Ensure / PyEval_RestoreThread by thread t
gil_ensure(g, t) == [holder |-> t, count |-> g.count + 1]

\* PyGILState_Release by the holder
gil_release(g) ==
    IF g.count > 1 THEN [holder |-> g.holder, count |-> g.count - 1]
    ELSE [holder |-> NoThread, count |-> 0]

\* The caller keeps the lock while it waits.
allow_threads_kept(g) == g

\* Py_BEGIN_ALLOW_THREADS: the caller gives the lock up.
allow_threads(g) == [holder |-> NoThread, count |-> 0]

\* The places where a thread calls PyGILState_Ensure.
GilPcs == {"w_start", "w_claim", "ms_item", "ms_grid", "ms_alloc", "ms_set",
           "m_ensure"}

\* PyGILState_Ensure: blocks while another thread holds the lock.
SEnsure(t) ==
    /\ pc[t] \in GilPcs /\ ~locked[t]
    /\ gil.holder \in {NoThread, t}
    /\ gil' = gil_ensure(gil, t)
    /\ locked' = [locked EXCEPT ![t] = TRUE]
    /\ UNCHANGED <<xvars, kvars, s_inputs, morphed, pc, strand_index, m_i, num_threads,
                   t_strand, t_i, t_can_update, t_bucket, t_result, w_morphed,
                   promise, seq_log, claim_count>>

\* PyGILState_Release at the end of a section of thread t.
Release(t) ==
    /\ gil' = gil_release(gil)
    /\ locked' = [locked EXCEPT ![t] = FALSE]

\* The range test without its upper limit.
offset_out_of_range_no_upper(offset) == offset = 0 \/ offset < 0 - N

\* offset == 0 || offset > N || offset < -N
offset_out_of_range(offset) == offset = 0 \/ offset > N \/ offset < 0 - N

invalid_parameters ==
    offset_out_of_range(s_offset) \/ ~s_tiles_is_dict \/ ~s_strands_is_list

\* The worker count with the quotient rounded up.
worker_count_ceil(max_threads, n_strands) ==
    Min2(max_threads,
         (n_strands + MinStrandsPerWorker - 1) \div MinStrandsPerWorker)

\* int num_threads = MIN(max_threads, max_by_strands)
worker_count(max_threads, n_strands) ==
    Min2(max_threads, n_strands \div MinStrandsPerWorker)

\* morph(): printf("Invalid morph parameters!\n"); return;
SInvalid ==
    /\ pc[0] = "entry" /\ invalid_parameters
    /\ pc' = [pc EXCEPT ![0] = "done"]
    /\ UNCHANGED <<xvars, kvars, s_inputs, morphed, locked, gil, strand_index, m_i,
                   num_threads, t_strand, t_i, t_can_update, t_bucket,
                   t_result, w_morphed, promise, seq_log, claim_count>>

\* morph(): if (num_threads > 1) { ...; int strand_index = 0;
SThreaded ==
    /\ pc[0] = "entry" /\ ~invalid_parameters
    /\ worker_count(s_hw, num_strands) > 1
    /\ num_threads' = worker_count(s_hw, num_strands)
    /\ strand_index' = 0
    /\ m_i' = 0
    /\ pc' = [pc EXCEPT ![0] = "m_spawn"]
    /\ UNCHANGED <<xvars, kvars, s_inputs, morphed, locked, gil, t_strand, t_i,
                   t_can_update, t_bucket, t_result, w_morphed, promise,
                   seq_log, claim_count>>

\* The parameters are valid and the worker count is 0 or 1.
SequentialReady ==
    /\ pc[0] = "entry" /\ ~invalid_parameters
    /\ worker_count(s_hw, num_strands) <= 1

\* morph(): else { MorphBucket bucket (abs(offset));
SSequential ==
    /\ SequentialReady
    /\ num_threads' = worker_count(s_hw, num_strands)
    /\ t_bucket' = [t_bucket EXCEPT ![0] = MorphBucket(abs(s_offset))]
    /\ t_strand' = [t_strand EXCEPT ![0] = 0]
    /\ pc' = [pc EXCEPT ![0] = "seq_loop"]
    /\ UNCHANGED <<xvars, kvars, s_inputs, morphed, locked, gil, strand_index, m_i, t_i,
                   t_can_update, t_result, w_morphed, promise, seq_log,
                   claim_count>>

\* The turn of the thread creation loop: threads[i] = std::thread(...)
SSpawn ==
    /\ pc[0] = "m_spawn" /\ m_i < num_threads
    /\ pc' = [pc EXCEPT ![m_i + 1] = "w_start"]
    /\ m_i' = m_i + 1
    /\ UNCHANGED <<xvars, kvars, s_inputs, morphed, locked, gil, strand_index, num_threads,
                   t_strand, t_i, t_can_update, t_bucket, t_result, w_morphed,
                   promise, seq_log, claim_count>>

\* Py_BEGIN_ALLOW_THREADS
SAllowThreads ==
    /\ pc[0] = "m_spawn" /\ m_i >= num_threads
    /\ gil' = allow_threads(gil)
    /\ m_i' = 0
    /\ pc' = [pc EXCEPT ![0] = "m_wait"]
    /\ UNCHANGED <<xvars, kvars, s_inputs, morphed, locked, strand_index, num_threads,
                   t_strand, t_i, t_can_update, t_bucket, t_result, w_morphed,
                   promise, seq_log, claim_count>>

\* A wait that returns at once.
future_ready_at_once(p, i) == TRUE

\* futures[i].wait() returns once worker i has set its promise.
future_ready(p, i) == p[i + 1]

\* futures[i].wait(); PyObject *_m = futures[i].get();
SWait ==
    /\ pc[0] = "m_wait"
    /\ future_ready(promise, m_i)
    /\ pc' = [pc EXCEPT ![0] = "m_ensure"]
    /\ UNCHANGED <<xvars, kvars, s_inputs, morphed, locked, gil, strand_index, m_i,
                   num_threads, t_strand, t_i, t_can_update, t_bucket,
                   t_result, w_morphed, promise, seq_log, claim_count>>

\* PyDict_Update(morphed, _m); Py_DECREF(_m); PyGILState_Release(state);
SMerge ==
    /\ pc[0] = "m_ensure" /\ locked[0]
    /\ morphed' = dict_update(morphed, w_morphed[m_i + 1])
    /\ Release(0)
    /\ pc' = [pc EXCEPT ![0] = "m_join"]
    /\ UNCHANGED <<xvars, kvars, s_inputs, strand_index, m_i, num_threads, t_strand, t_i,
                   t_can_update, t_bucket, t_result, w_morphed, promise,
                   seq_log, claim_count>>

\* threads[i].join(), and the next turn of the loop or its end.
SJoin ==
    /\ pc[0] = "m_join"
    /\ pc[m_i + 1] = "exited"
    /\ m_i' = m_i + 1
    /\ pc' = [pc EXCEPT ![0] = IF m_i + 1 < num_threads THEN "m_wait"
                                ELSE "m_end_allow"]
    /\ UNCHANGED <<xvars, kvars, s_inputs, morphed, locked, gil, strand_index, num_threads,
                   t_strand, t_i, t_can_update, t_bucket, t_result, w_morphed,
                   promise, seq_log, claim_count>>

\* Py_END_ALLOW_THREADS, and morph() returns.
SEndAllowThreads ==
    /\ pc[0] = "m_end_allow"
    /\ gil.holder = NoThread
    /\ gil' = gil_ensure(gil, 0)
    /\ pc' = [pc EXCEPT ![0] = "done"]
    /\ UNCHANGED <<xvars, kvars, s_inputs, morphed, locked, strand_index, m_i, num_threads,
                   t_strand, t_i, t_can_update, t_bucket, t_result, w_morphed,
                   promise, seq_log, claim_count>>

\* can_update carried over from the thread's previous strand.
first_can_update_kept(prev) == prev

\* bool can_update = false; at the head of morph_strand.  prev is what the
\* thread's previous strand left.
first_can_update(prev) == FALSE

\* Where thread t goes when morph_strand returns.
after_strand(t) == IF t = 0 THEN "seq_loop" ELSE "w_claim"

\* The turn of the sequential loop: strand i is handed to morph_strand, or
\* the loop ends and morph() returns.
SSeqLoop ==
    /\ pc[0] = "seq_loop"
    /\ IF t_strand[0] < num_strands
       THEN /\ seq_log' = Append(seq_log, t_strand[0])
            /\ t_i' = [t_i EXCEPT ![0] = 0]
            /\ t_can_update' = [t_can_update EXCEPT ![0] =
                   first_can_update(t_can_update[0])]
            /\ IF Len(s_strands[t_strand[0] + 1]) > 0
               THEN pc' = [pc EXCEPT ![0] = "ms_item"] /\ UNCHANGED t_strand
               ELSE /\ t_strand' = [t_strand EXCEPT ![0] = t_strand[0] + 1]
                    /\ UNCHANGED pc
            /\ UNCHANGED t_bucket
       ELSE /\ pc' = [pc EXCEPT ![0] = "done"]
            /\ t_bucket' = [t_bucket EXCEPT ![0] = NoBucket]
            /\ UNCHANGED <<seq_log, t_i, t_can_update, t_strand>>
    /\ UNCHANGED <<xvars, kvars, s_inputs, morphed, locked, gil, strand_index, m_i,
                   num_threads, t_result, w_morphed, promise, claim_count>>

\* Worker t holds the lock for its PyDict_New().
WorkerStartReady(t) == t \in Workers /\ pc[t] = "w_start" /\ locked[t]

\* morph_worker: morphed = PyDict_New(), then MorphBucket bucket(abs(offset))
SWorkerStart(t) ==
    /\ WorkerStartReady(t)
    /\ w_morphed' = [w_morphed EXCEPT ![t] = <<>>]
    /\ t_bucket' = [t_bucket EXCEPT ![t] = MorphBucket(abs(s_offset))]
    /\ Release(t)
    /\ pc' = [pc EXCEPT ![t] = "w_claim"]
    /\ UNCHANGED <<xvars, kvars, s_inputs, morphed, strand_index, m_i, num_threads,
                   t_strand, t_i, t_can_update, t_result, promise, seq_log,
                   claim_count>>

\* An index that advances by two.
index_after_claim_by_two(index) == index + 2

\* i = index++ : the value the shared index is left with.
index_after_claim(index) == index + 1

\* morph_worker: i = index++; if (i >= num_strands) break; else the strand is
\* handed to morph_strand.
SWorkerClaim(t) ==
    /\ t \in Workers /\ pc[t] = "w_claim" /\ locked[t]
    /\ strand_index' = index_after_claim(strand_index)
    /\ t_strand' = [t_strand EXCEPT ![t] = strand_index]
    /\ IF strand_index >= num_strands
       THEN /\ pc' = [pc EXCEPT ![t] = "w_set_value"]
            /\ UNCHANGED <<t_i, t_can_update, claim_count>>
       ELSE /\ claim_count' = [claim_count EXCEPT ![strand_index] = @ + 1]
            /\ t_i' = [t_i EXCEPT ![t] = 0]
            /\ t_can_update' = [t_can_update EXCEPT ![t] =
                   first_can_update(t_can_update[t])]
            /\ pc' = [pc EXCEPT ![t] =
                   IF Len(s_strands[strand_index + 1]) > 0 THEN "ms_item"
                   ELSE "w_claim"]
    /\ Release(t)
    /\ UNCHANGED <<xvars, kvars, s_inputs, morphed, m_i, num_threads, t_bucket, t_result,
                   w_morphed, promise, seq_log>>

\* morph_worker: result.set_value(morphed)
SWorkerSetValue(t) ==
    /\ t \in Workers /\ pc[t] = "w_set_value"
    /\ promise' = [promise EXCEPT ![t] = TRUE]
    /\ pc' = [pc EXCEPT ![t] = "w_return"]
    /\ UNCHANGED <<xvars, kvars, s_inputs, morphed, locked, gil, strand_index, m_i,
                   num_threads, t_strand, t_i, t_can_update, t_bucket,
                   t_result, w_morphed, seq_log, claim_count>>

\* morph_worker returns: the bucket is destroyed, the thread ends.
SWorkerReturn(t) ==
    /\ t \in Workers /\ pc[t] = "w_return"
    /\ t_bucket' = [t_bucket EXCEPT ![t] = NoBucket]
    /\ pc' = [pc EXCEPT ![t] = "exited"]
    /\ UNCHANGED <<xvars, kvars, s_inputs, morphed, locked, gil, strand_index, m_i,
                   num_threads, t_strand, t_i, t_can_update, t_result,
                   w_morphed, promise, seq_log, claim_count>>

t_coord(t) == s_strands[t_strand[t] + 1][t_i[t] + 1]

\* morph_strand: tile_coord = PyList_GET_ITEM(strand, i)
SStrandItem(t) ==
    /\ pc[t] = "ms_item" /\ locked[t]
    /\ Release(t)
    /\ pc' = [pc EXCEPT ![t] = "ms_grid"]
    /\ UNCHANGED <<xvars, kvars, s_inputs, morphed, strand_index, m_i, num_threads,
                   t_strand, t_i, t_can_update, t_bucket, t_result, w_morphed,
                   promise, seq_log, claim_count>>

\* morph_strand: grid = nine_grid(tile_coord, tiles)
SStrandGrid(t) ==
    /\ pc[t] = "ms_grid" /\ locked[t]
    /\ Release(t)
    /\ pc' = [pc EXCEPT ![t] = "ms_alloc"]
    /\ UNCHANGED <<xvars, kvars, s_inputs, morphed, strand_index, m_i, num_threads,
                   t_strand, t_i, t_can_update, t_bucket, t_result, w_morphed,
                   promise, seq_log, claim_count>>

\* The end of one turn of morph_strand's loop for thread t: ++i, and the
\* next turn or the return from morph_strand.
NextEntry(t) ==
    /\ t_i' = [t_i EXCEPT ![t] = t_i[t] + 1]
    /\ IF t_i[t] + 1 < Len(s_strands[t_strand[t] + 1])
       THEN pc' = [pc EXCEPT ![t] = "ms_item"] /\ UNCHANGED t_strand
       ELSE /\ pc' = [pc EXCEPT ![t] = after_strand(t)]
            /\ t_strand' = [t_strand EXCEPT ![t] =
                   IF t = 0 THEN t_strand[t] + 1 ELSE t_strand[t]]

\* Thread t holds the lock for the buffer of its next result.
StrandOpReady(t) == pc[t] = "ms_alloc" /\ locked[t]

\* morph_strand: empty_result(offset, grid[0], result.second) of thread t
strand_drops(t, result_buf) ==
    empty_result(s_offset, nine_grid(t_coord(t), s_tiles)[1], result_buf)

\* morph_strand: result = op(bucket, can_update, grid), whose locked
\* section makes the buffer of the result; can_update = result.first; and
\* empty_result, which ends the turn when it answers true.
SStrandOp(t) ==
    /\ StrandOpReady(t)
    /\ \E r \in {morph_op(s_offset, t_bucket[t], t_can_update[t],
                           nine_grid(t_coord(t), s_tiles))} :
           /\ t_bucket' = [t_bucket EXCEPT ![t] = r.mb]
           /\ t_result' = [t_result EXCEPT ![t] =
                  IF strand_drops(t, r.second) THEN NoResult
                  ELSE [first |-> r.first, second |-> r.second]]
           /\ t_can_update' = [t_can_update EXCEPT ![t] = r.first]
           /\ IF strand_drops(t, r.second)
              THEN NextEntry(t)
              ELSE /\ pc' = [pc EXCEPT ![t] = "ms_set"]
                   /\ UNCHANGED <<t_i, t_strand>>
    /\ Release(t)
    /\ UNCHANGED <<xvars, kvars, s_inputs, morphed, strand_index, m_i, num_threads,
                   w_morphed, promise, seq_log, claim_count>>

\* A worker hands morph_strand the caller's output map.
strand_target_shared(t) == IF t \in Workers THEN 0 ELSE t

\* The map morph_strand is handed by thread t: 0 is the caller's output map,
\* w > 0 the map worker w created.
strand_target(t) == t

\* morph_strand: PyDict_SetItem(morphed, tile_coord, result.second.array_ob);
\* the turn ends and result goes out of scope.
SStrandSet(t) ==
    /\ pc[t] = "ms_set" /\ locked[t]
    /\ IF strand_target(t) = 0
       THEN /\ morphed' = dict_set(morphed, t_coord(t), t_result[t].second)
            /\ UNCHANGED w_morphed
       ELSE /\ w_morphed' = [w_morphed EXCEPT ![strand_target(t)] =
                   dict_set(@, t_coord(t), t_result[t].second)]
            /\ UNCHANGED morphed
    /\ t_result' = [t_result EXCEPT ![t] = NoResult]
    /\ NextEntry(t)
    /\ Release(t)
    /\ UNCHANGED <<xvars, kvars, s_inputs, strand_index, m_i, num_threads,
                   t_can_update, t_bucket, promise, seq_log, claim_count>>

\* The caller's steps other than the construction of its bucket.
CallerLightNext ==
    \/ SInvalid \/ SThreaded \/ SSpawn \/ SAllowThreads
    \/ SWait \/ SMerge \/ SJoin \/ SEndAllowThreads \/ SSeqLoop

CallerNext == CallerLightNext \/ SSequential

\* The steps of thread t other than the kernel's and the construction of
\* its bucket.
LightNext(t) ==
    \/ SEnsure(t) \/ SStrandItem(t) \/ SStrandGrid(t) \/ SStrandSet(t)
    \/ SWorkerClaim(t) \/ SWorkerSetValue(t) \/ SWorkerReturn(t)

ThreadNext(t) == LightNext(t) \/ SStrandOp(t) \/ SWorkerStart(t)

SNext == CallerNext \/ \E t \in Threads : ThreadNext(t)

vars == <<kvars, svars, xvars>>

\* Each specification leaves the variables of the other at rest.
KIdle ==
    /\ k_offset = 1 /\ k_tiles = <<>> /\ k_strand = <<>> /\ k_i = 0
    /\ k_pc = "idle" /\ k_can_update = FALSE /\ k_mb = NoBucket /\ k_y = 0
    /\ k_dst = <<>> /\ k_result = NoResult /\ k_morphed = <<>>

SIdle ==
    /\ s_offset = 1 /\ s_tiles = <<>> /\ s_strands = <<>>
    /\ s_tiles_is_dict = TRUE /\ s_strands_is_list = TRUE /\ s_hw = 0
    /\ morphed = <<>> /\ pc = <<>> /\ locked = <<>>
    /\ gil = [holder |-> NoThread, count |-> 0]
    /\ strand_index = 0 /\ m_i = 0 /\ num_threads = 0 /\ t_strand = <<>>
    /\ t_i = <<>> /\ t_can_update = <<>> /\ t_bucket = <<>> /\ t_result = <<>>
    /\ w_morphed = <<>> /\ promise = <<>> /\ seq_log = <<>>
    /\ claim_count = <<>>

NIdle ==
    /\ n_coord = <<0, 0>> /\ n_tiles = <<>> /\ n_grid = <<>> /\ n_pc = "idle"
    /\ n_radius = 0 /\ n_input = <<>>

DIdle ==
    /\ d_distance = 1 /\ d_grid = <<>> /\ d_bucket = <<>> /\ d_radiuses = <<>>
    /\ d_radiuses_entry = <<>> /\ d_no_gaps = "none" /\ d_outside = FALSE
    /\ d_pc = "idle"

BIdle ==
    /\ b_r = 1 /\ b_v = 0 /\ b_bucket = <<>> /\ b_dst = <<>>
    /\ b_can_update = FALSE /\ b_calls = 0

PIdle ==
    /\ p_hw = 0 /\ p_strands = 0 /\ p_pc = "idle" /\ p_threads = 0 /\ p_i = 0
    /\ p_queue = 0 /\ p_wpc = <<>> /\ p_wmap = <<>> /\ p_result = {}
    /\ p_spawned = 0

XIdle == NIdle /\ DIdle /\ BIdle /\ PIdle

KSpecInit == KInit /\ SIdle /\ XIdle

KSpec == KSpecInit /\ [][KNext]_vars

Init == SInit /\ KIdle /\ XIdle

Spec == Init /\ [][SNext]_vars

(***************************************************************************)
(* GridSpec: the two nine_grid functions, called for a tile coordinate     *)
(* and a tile map that holds any subset of the coordinates around it.      *)
(* Every pixel of a tile carries its position in the image, so that no     *)
(* two pixels of the map are equal and none is 0.  The grid is then copied *)
(* to a new padded buffer by the function of the same file.                *)
(***************************************************************************)
NCoords == (0 - 1..1) \X (0 - 1..1)

coord_tile(c) ==
    [ob |-> "A", px |-> [y \in TileIdx |-> [x \in TileIdx |->
                            (N*c[1] + x + 2*N) * 8*N + (N*c[2] + y + 2*N)]]]

NInit ==
    /\ n_coord \in {<<0, 0>>, <<1, 0 - 1>>}
    /\ \E present \in SUBSET NCoords :
          n_tiles = [c \in present |-> coord_tile(c)]
    /\ n_grid = <<>>
    /\ n_pc = "call"
    /\ n_radius \in 1..N
    /\ n_input = [i \in 0..(N + 2*n_radius - 1) |->
                     [j \in 0..(N + 2*n_radius - 1) |-> Uninit]]

\* nine_grid of morphology.cpp returns; PyDict_GetItem only reads tiles.
NMorphology ==
    /\ n_pc = "call"
    /\ n_grid' = nine_grid(n_coord, n_tiles)
    /\ n_pc' = "morphology"
    /\ UNCHANGED <<pvars, kvars, svars, dvars, bvars, n_coord, n_tiles, n_radius,
                   n_input>>

\* nine_grid of fill_common.cpp returns; PyDict_GetItem only reads tiles.
NFillCommon ==
    /\ n_pc = "call"
    /\ n_grid' = nine_grid_fill_common(n_coord, n_tiles)
    /\ n_pc' = "fill_common"
    /\ UNCHANGED <<pvars, kvars, svars, dvars, bvars, n_coord, n_tiles, n_radius,
                   n_input>>

\* copy_nine_grid_section of morphology.cpp on the grid of its nine_grid,
\* the first population of a buffer (from_above = false).
NCopyNineGridSection ==
    /\ n_pc = "morphology"
    /\ n_input' = copy_nine_grid_section(n_radius, n_input, FALSE, n_grid)
    /\ n_pc' = "morphology_copied"
    /\ UNCHANGED <<pvars, kvars, svars, dvars, bvars, n_coord, n_tiles, n_radius,
                   n_grid>>

\* init_from_nine_grid of fill_common.cpp on the grid of its nine_grid,
\* the first population of a buffer (from_above = false).
NInitFromNineGrid ==
    /\ n_pc = "fill_common"
    /\ n_input' = init_from_nine_grid(n_radius, n_input, FALSE, n_grid)
    /\ n_pc' = "fill_common_copied"
    /\ UNCHANGED <<pvars, kvars, svars, dvars, bvars, n_coord, n_tiles, n_radius,
                   n_grid>>

NNext ==
    NMorphology \/ NFillCommon \/ NCopyNineGridSection \/ NInitFromNineGrid

GridSpecInit == NInit /\ KIdle /\ SIdle /\ DIdle /\ BIdle /\ PIdle

GridSpec == GridSpecInit /\ [][NNext]_vars

(***************************************************************************)
(* GapSpec: for an empty tile, no_corner_gaps on its N, E, S, W            *)
(* neighbours and then find_gaps on the nine-grid.  Up to MaxDistance,     *)
(* r = distance + 1 stays within N and copy_nine_grid_section reads inside *)
(* the tiles; OutOfRange is a distance above N.  What a read outside a     *)
(* tile gives is any of OutsideValues.                                     *)
(***************************************************************************)
MaxDistance == N - 1
OutOfRange == N + 1
OutsideValues == {0, fix15_one}

\* The opaque tile with the pixel (px, py) set to 0.
hole_tile(px, py) ==
    [ob |-> "A", px |-> [y \in TileIdx |-> [x \in TileIdx |->
                            IF x = px /\ y = py THEN 0 ELSE fix15_one]]]

Holes == {hole_tile(px, py) : px \in TileIdx, py \in TileIdx}

\* radiuses_arr holds no distance yet: a value above every offs_dst.
no_distance == 2 * N * N

\* radiuses_arr as an earlier find_gaps call may leave it: the squared
\* offset 5 at every other pixel.
radiuses_written ==
    [y \in TileIdx |-> [x \in TileIdx |->
        IF (x + y) % 2 = 0 THEN 5 ELSE no_distance]]

DInit ==
    /\ \E w \in Holes \cup {OPAQUE_ALPHA_TILE} :
       \E s \in Holes \cup {OPAQUE_ALPHA_TILE} :
       \E n \in {OPAQUE_ALPHA_TILE, hole_tile(0, N - 1), hole_tile(N - 1, N - 2)} :
       \E e \in {OPAQUE_ALPHA_TILE, hole_tile(0, 1)} :
          /\ d_grid = <<TRANSPARENT_ALPHA_TILE, n, e, s, w,
                        OPAQUE_ALPHA_TILE, OPAQUE_ALPHA_TILE,
                        OPAQUE_ALPHA_TILE, OPAQUE_ALPHA_TILE>>
          /\ \/ d_distance \in 1..MaxDistance
             \/ /\ d_distance = OutOfRange
                /\ w \in {OPAQUE_ALPHA_TILE, hole_tile(N - 1, 0)}
                /\ s \in {OPAQUE_ALPHA_TILE, hole_tile(0, 0)}
    /\ d_bucket = DistanceBucket(d_distance)
    /\ d_radiuses \in {uniform_px(no_distance), radiuses_written}
    /\ d_radiuses_entry = d_radiuses
    /\ d_no_gaps = "none"
    /\ d_outside = FALSE
    /\ d_pc = "call"

\* no_corner_gaps(d, n, e, s, w) returns.
DNoCornerGaps ==
    /\ d_pc = "call"
    /\ \E outside \in OutsideValues :
          d_no_gaps' = no_corner_gaps(d_distance, d_grid[2], d_grid[3],
                                      d_grid[4], d_grid[5], outside)
    /\ d_outside' = no_corner_gaps_reads_outside(d_distance)
    /\ d_pc' = "checked"
    /\ UNCHANGED <<pvars, kvars, svars, nvars, bvars, d_distance, d_grid, d_bucket,
                   d_radiuses, d_radiuses_entry>>

\* find_gaps(rb, radiuses_arr, mid, n, e, s, w, ne, se, sw, nw) returns.
DFindGaps ==
    /\ d_pc = "checked"
    /\ \E outside \in OutsideValues :
       \E fg \in {find_gaps(d_bucket, d_radiuses, d_grid, outside)} :
          /\ d_bucket' = [d_bucket EXCEPT !.input = fg.input]
          /\ d_radiuses' = fg.radiuses
    /\ d_outside' =
          (d_outside \/ reads_outside(copy_nine_grid_section(
               d_distance + 1, d_bucket.input, FALSE, d_grid)))
    /\ d_radiuses_entry' = d_radiuses
    /\ d_pc' = "done"
    /\ UNCHANGED <<pvars, kvars, svars, nvars, bvars, d_distance, d_grid, d_no_gaps>>

DNext == DNoCornerGaps \/ DFindGaps

GapSpecInit == DInit /\ KIdle /\ SIdle /\ NIdle /\ BIdle /\ PIdle

GapSpec == GapSpecInit /\ [][DNext]_vars

(***************************************************************************)
(* BlurSpec: blur() called for tiles of a strand whose nine-grids are all  *)
(* uniformly b_v, first with can_update = false, then with can_update =    *)
(* true as for the tile below.                                             *)
(***************************************************************************)
MaxBlurRadius == 5
MaxBlurCalls == 2

BlurValues == {k * 2048 : k \in 0..16} \cup {1, 3, fix15_one - 1}

blur_tile(v) == [ob |-> "A", px |-> [y \in BlurIdx |-> [x \in BlurIdx |-> v]]]

blur_grid(v) == [i \in 1..9 |-> blur_tile(v)]

BInit ==
    /\ b_r \in 1..MaxBlurRadius
    /\ b_v \in BlurValues
    /\ b_bucket = BlurBucket(b_r)
    /\ b_dst = blur_tile(0)
    /\ b_can_update = FALSE
    /\ b_calls = 0

\* blur(bb, false, ...)
BBlurScratch ==
    /\ b_calls < MaxBlurCalls
    /\ \E res \in {blur(b_bucket, FALSE, blur_grid(b_v))} :
          b_bucket' = res.bb /\ b_dst' = res.out_tile
    /\ b_can_update' = FALSE
    /\ b_calls' = b_calls + 1
    /\ UNCHANGED <<pvars, kvars, svars, nvars, dvars, b_r, b_v>>

\* blur(bb, true, ...) after a call on the same bucket
BBlurUpdate ==
    /\ b_calls > 0 /\ b_calls < MaxBlurCalls
    /\ \E res \in {blur(b_bucket, TRUE, blur_grid(b_v))} :
          b_bucket' = res.bb /\ b_dst' = res.out_tile
    /\ b_can_update' = TRUE
    /\ b_calls' = b_calls + 1
    /\ UNCHANGED <<pvars, kvars, svars, nvars, dvars, b_r, b_v>>

BNext == BBlurScratch \/ BBlurUpdate

BlurSpecInit == BInit /\ KIdle /\ SIdle /\ NIdle /\ DIdle /\ PIdle

BlurSpec == BlurSpecInit /\ [][BNext]_vars

(***************************************************************************)
(* ProcSpec: process_strands of fill_common.cpp.  The worker function and  *)
(* the StrandQueue are arguments and types of other files: a worker takes  *)
(* the next strand index of the queue while the caller has released the    *)
(* interpreter lock, adds the strand's result to its own map, and sets its *)
(* promise when the queue is empty.  A map is the set of the strands whose *)
(* results it holds.                                                       *)
(***************************************************************************)
PWorkers == 1..MaxHW

PInit ==
    /\ p_hw \in 0..MaxHW
    /\ p_strands \in 0..MaxStrands
    /\ p_pc = "entry"
    /\ p_threads = 0
    /\ p_i = 0
    /\ p_queue = 0
    /\ p_wpc = [w \in PWorkers |-> "unspawned"]
    /\ p_wmap = [w \in PWorkers |-> {}]
    /\ p_result = {}
    /\ p_spawned = 0

\* num_threads, the vectors threads and futures, PyEval_InitThreads and
\* StrandQueue work_queue(strands)
PEntry ==
    /\ p_pc = "entry"
    /\ p_threads' = num_strand_workers(p_hw, p_strands, MinStrandsPerWorker)
    /\ p_queue' = 0
    /\ p_i' = 0
    /\ p_pc' = "spawn"
    /\ UNCHANGED <<kvars, svars, nvars, dvars, bvars, p_hw, p_strands, p_wpc,
                   p_wmap, p_result, p_spawned>>

\* for (int i = 0; i < num_threads; ++i) threads[i] = std::thread(worker, ...)
PSpawn ==
    /\ p_pc = "spawn" /\ p_i < p_threads
    /\ p_wpc' = [p_wpc EXCEPT ![p_i + 1] = "running"]
    /\ p_spawned' = p_spawned + 1
    /\ p_i' = p_i + 1
    /\ UNCHANGED <<kvars, svars, nvars, dvars, bvars, p_hw, p_strands, p_pc,
                   p_threads, p_queue, p_wmap, p_result>>

\* The creation loop ends: Py_BEGIN_ALLOW_THREADS
PAllowThreads ==
    /\ p_pc = "spawn" /\ p_i >= p_threads
    /\ p_i' = 0
    /\ p_pc' = "merge"
    /\ UNCHANGED <<kvars, svars, nvars, dvars, bvars, p_hw, p_strands,
                   p_threads, p_queue, p_wpc, p_wmap, p_result, p_spawned>>

\* A worker takes a strand from the queue and adds its result to its map.
PWorkerStrand(w) ==
    /\ p_pc = "merge" /\ p_wpc[w] = "running" /\ p_queue < p_strands
    /\ p_wmap' = [p_wmap EXCEPT ![w] = p_wmap[w] \cup {p_queue}]
    /\ p_queue' = p_queue + 1
    /\ UNCHANGED <<kvars, svars, nvars, dvars, bvars, p_hw, p_strands, p_pc,
                   p_threads, p_i, p_wpc, p_result, p_spawned>>

\* A worker finds the queue empty and sets its promise.
PWorkerSetValue(w) ==
    /\ p_pc = "merge" /\ p_wpc[w] = "running" /\ p_queue >= p_strands
    /\ p_wpc' = [p_wpc EXCEPT ![w] = "finished"]
    /\ UNCHANGED <<kvars, svars, nvars, dvars, bvars, p_hw, p_strands, p_pc,
                   p_threads, p_i, p_queue, p_wmap, p_result, p_spawned>>

\* The turn of the second loop: futures[i].wait(), PyDict_Update(result, _m)
\* between PyGILState_Ensure and PyGILState_Release, threads[i].join()
PMerge ==
    /\ p_pc = "merge" /\ p_i < p_threads
    /\ p_wpc[p_i + 1] = "finished"
    /\ p_result' = p_result \cup p_wmap[p_i + 1]
    /\ p_wpc' = [p_wpc EXCEPT ![p_i + 1] = "joined"]
    /\ p_i' = p_i + 1
    /\ UNCHANGED <<kvars, svars, nvars, dvars, bvars, p_hw, p_strands, p_pc,
                   p_threads, p_queue, p_wmap, p_spawned>>

\* The second loop ends: Py_END_ALLOW_THREADS, process_strands returns.
PEndAllowThreads ==
    /\ p_pc = "merge" /\ p_i >= p_threads
    /\ p_pc' = "returned"
    /\ UNCHANGED <<kvars, svars, nvars, dvars, bvars, p_hw, p_strands,
                   p_threads, p_i, p_queue, p_wpc, p_wmap, p_result,
                   p_spawned>>

PWorkerNext(w) == PWorkerStrand(w) \/ PWorkerSetValue(w)

PNext ==
    \/ PEntry \/ PSpawn \/ PAllowThreads \/ PMerge \/ PEndAllowThreads
    \/ \E w \in PWorkers : PWorkerNext(w)

ProcSpecInit == PInit /\ KIdle /\ SIdle /\ NIdle /\ DIdle /\ BIdle

ProcSpec == ProcSpecInit /\ [][PNext]_vars

(***************************************************************************)
(* The disk of radius r and the naive morph over it.                       *)
(***************************************************************************)
disk(r) ==
    {d \in ((0 - r)..r) \X ((0 - r)..r) :
        4*d[1]*d[1] + 4*d[2]*d[2] <= (2*r + 1)*(2*r + 1)}

extremum(S, cmp) ==
    IF cmp = "max" THEN CHOOSE m \in S : \A v \in S : v <= m
    ELSE CHOOSE m \in S : \A v \in S : m <= v

naive_morph(input, r, cmp) ==
    [y \in TileIdx |-> [x \in TileIdx |->
        extremum({input[y + r + d[2]][x + r + d[1]] : d \in disk(r)}, cmp)]]

\* The population of the padded buffer for tile coordinate c, from scratch.
full_population(c) ==
    copy_nine_grid_section(k_mb.radius, k_mb.input, FALSE,
                           nine_grid(c, k_tiles))

\* C3: a MorphBucket::morph that started from scratch (can_update = false)
\* returns, for every radius and both operations, the naive morph of the
\* padded input buffer with the disk |dx| <= floor(sqrt((r+0.5)^2 - dy^2)).
C3_ScratchMorphIsDiskMorph ==
    (k_pc = "result" /\ k_result.first /\ ~k_can_update)
        => k_result.second.px
             = naive_morph(k_mb.input, k_mb.radius, op_cmp(k_offset))

\* A from-scratch kernel run at the largest radius whose output is not flat.
C3_Witness ==
    /\ k_pc = "result" /\ k_result.first /\ ~k_can_update
    /\ k_mb.radius = N
    /\ k_result.second.px # uniform_px(k_result.second.px[0][0])
    /\ k_result.second.px
         = naive_morph(k_mb.input, k_mb.radius, op_cmp(k_offset))

\* C4: when the buffer holds the full population for the tile directly
\* north, populating with from_above = true leaves every cell as the full
\* population (from_above = false) of the current tile leaves it, also when
\* 2r > N.
C4_FromAboveIsFullPopulation ==
    [][(/\ k_pc = "entry" /\ k_pc' = "begin"
        /\ k_can_update /\ k_i > 0
        /\ k_strand[k_i] = <<k_coord[1], k_coord[2] - 1>>
        /\ k_mb.input = full_population(k_strand[k_i]))
          => k_mb'.input = full_population(k_coord)]_vars

\* The buffer right after a from_above population below the northern tile,
\* with overlapping row ranges (2r > N) and a content that is not flat.
C4_Witness ==
    /\ k_pc = "begin" /\ k_can_update /\ k_i > 0
    /\ k_strand[k_i] = <<k_coord[1], k_coord[2] - 1>>
    /\ 2 * k_mb.radius > N
    /\ k_mb.input = full_population(k_coord)
    /\ \E y \in DOMAIN k_mb.input : k_mb.input[y] # k_mb.input[0]

(***************************************************************************)
(* The sequential reference: all strands one after another on one thread   *)
(* with one bucket, as the sequential branch of morph() runs them.         *)
(***************************************************************************)
RECURSIVE ref_strand(_, _, _, _, _)
ref_strand(strand, i, can_update, bucket, out) ==
    IF i > Len(strand)
    THEN [mb |-> bucket, out |-> out, can_update |-> can_update]
    ELSE LET grid == nine_grid(strand[i], s_tiles)
             r == morph_op(s_offset, bucket, can_update, grid)
         IN  ref_strand(strand, i + 1, r.first, r.mb,
                        IF empty_result(s_offset, grid[1], r.second) THEN out
                        ELSE dict_set(out, strand[i], r.second))

RECURSIVE ref_strands(_, _, _, _)
ref_strands(k, prev_can_update, bucket, out) ==
    IF k > Len(s_strands) THEN out
    ELSE LET r == ref_strand(s_strands[k], 1,
                             first_can_update(prev_can_update), bucket, out)
         IN  ref_strands(k + 1, r.can_update, r.mb, r.out)

sequential_reference ==
    ref_strands(1, FALSE, MorphBucket(abs(s_offset)), morphed_at_entry)

strand_coords(k) == {s_strands[k][i] : i \in 1..Len(s_strands[k])}

disjoint_strands ==
    \A a, b \in 1..num_strands :
        a # b => strand_coords(a) \cap strand_coords(b) = {}

spawned == 1..num_threads

\* The worker has read an index >= num_strands and left its loop.
WorkerFinished(w) == pc[w] \in {"w_set_value", "w_return", "exited"}

\* C1: when no coordinate lies in two strands, the output map the
\* multi-threaded branch of morph() leaves equals, key for key and tile for
\* tile, the map of the sequential single-bucket reference, whatever the
\* interleaving of the workers was.
C1_ThreadedEqualsSequential ==
    (pc[0] = "done" /\ num_threads > 1 /\ disjoint_strands)
        => morphed = sequential_reference

\* Both workers contributed tiles, worker 1 from two strands (its bucket
\* was used again), and the merged map is the reference.
C1_Witness ==
    /\ pc[0] = "done" /\ num_threads > 1 /\ disjoint_strands
    /\ \E c, d \in DOMAIN w_morphed[1] : c[1] # d[1]
    /\ w_morphed[2] # <<>>
    /\ \E c \in DOMAIN morphed : morphed[c].ob = "A"
    /\ morphed = sequential_reference

\* C2: in the multi-threaded branch no strand index is claimed twice, every
\* index below the shared index has been claimed (none is skipped), all of
\* them once morph() is done, and a worker leaves its loop only with an
\* index >= num_strands in hand.
C2_EachIndexClaimedOnce ==
    num_threads > 1 =>
        /\ \A k \in 0..(num_strands - 1) :
               claim_count[k] = IF k < strand_index THEN 1 ELSE 0
        /\ \A w \in spawned : WorkerFinished(w) => t_strand[w] >= num_strands
        /\ pc[0] = "done" => strand_index >= num_strands

\* Both workers claimed strands and both have stopped.
C2_Witness ==
    /\ num_threads > 1
    /\ \A w \in spawned : pc[w] = "exited" /\ w_morphed[w] # <<>>
    /\ \A k \in 0..(num_strands - 1) : claim_count[k] = 1

\* C5: with offset == 0, offset > N, offset < -N, tiles not a dict or
\* strands not a list, morph() spawns no worker, processes nothing and
\* leaves the output map as it was handed in.
C5_InvalidParametersChangeNothing ==
    (\/ s_offset = 0 \/ s_offset > N \/ s_offset < 0 - N
     \/ ~s_tiles_is_dict \/ ~s_strands_is_list) =>
        /\ pc[0] \in {"entry", "done"}
        /\ \A w \in Workers : pc[w] = "unspawned"
        /\ morphed = morphed_at_entry
        /\ seq_log = <<>>

\* An offset beyond N with enough strands and cores for two workers.
C5_Witness ==
    /\ pc[0] = "done" /\ s_offset > N
    /\ s_tiles_is_dict /\ s_strands_is_list
    /\ worker_count(s_hw, num_strands) > 1
    /\ morphed = morphed_at_entry

\* C6: the worker count is min(hardware_concurrency, floor(num_strands / 4));
\* with a count of 0 or 1 (so with fewer than 4 strands) no thread is
\* spawned and the caller runs every strand in list order with one bucket;
\* otherwise exactly that many workers are spawned.
C6_WorkerCount ==
    (pc[0] # "entry" /\ ~invalid_parameters) =>
        /\ num_threads = Min2(s_hw, num_strands \div 4)
        /\ num_strands < 4 => num_threads <= 1
        /\ num_threads <= 1 =>
               /\ \A w \in Workers :
                      pc[w] = "unspawned" /\ t_bucket[w] = NoBucket
               /\ seq_log = [k \in 1..Len(seq_log) |-> k - 1]
               /\ pc[0] = "done" =>
                      /\ Len(seq_log) = num_strands
                      /\ morphed = sequential_reference
        /\ num_threads > 1 =>
               /\ seq_log = <<>> /\ t_bucket[0] = NoBucket
               /\ \A w \in Workers :
                      pc[w] # "unspawned" =>
                          /\ w \in spawned
                          /\ pc[0] = "m_spawn" => w <= m_i
               /\ pc[0] # "m_spawn" =>
                      \A w \in spawned : pc[w] # "unspawned"

\* Two cores, but strands for one worker only: the caller did them all.
C6_Witness ==
    /\ pc[0] = "done" /\ ~invalid_parameters
    /\ s_hw > 1 /\ num_strands >= 4 /\ num_threads = 1
    /\ Len(seq_log) = num_strands
    /\ morphed # morphed_at_entry

\* The caller has run PyDict_Update for worker m_i and not yet joined it.
JustMerged == pc[0] = "m_join"

\* C7 as stated: no worker-local map is merged before every worker has
\* finished its last strand.
C7_NoMergeBeforeAllFinished ==
    JustMerged => \A w \in spawned : WorkerFinished(w)

\* C7: the map of worker i is merged only after worker i has set its
\* promise, so after its last strand, and after the maps of all workers of
\* a smaller index were merged and those workers joined; workers of a
\* larger index may still be at work.
C7_MergeAfterOwnPromise ==
    JustMerged =>
        /\ promise[m_i + 1] /\ pc[m_i + 1] \in {"w_return", "exited"}
        /\ \A w \in spawned : w < m_i + 1 => pc[w] = "exited"

\* Worker 1 is merged while worker 2 is still inside a strand.
C7_Witness ==
    /\ JustMerged /\ m_i = 0
    /\ w_morphed[1] # <<>>
    /\ pc[2] \in {"ms_item", "ms_grid", "ms_alloc", "ms_set"}

\* C8: in the multi-threaded branch the output map changes only in the
\* caller's merge step, with the lock held, by the map of a worker whose
\* promise is set; the map of worker w changes only in a PyDict_SetItem of
\* worker w itself, with the lock held; and the caller reads a worker's map
\* only after the promise of that worker is set.
C8_MapsHaveOneWriter ==
    [][num_threads > 1 =>
        /\ morphed' # morphed =>
               /\ pc[0] = "m_ensure" /\ locked[0] /\ gil.holder = 0
               /\ pc'[0] = "m_join"
               /\ morphed' = dict_update(morphed, w_morphed[m_i + 1])
        /\ (pc[0] = "m_ensure" /\ pc'[0] = "m_join") => promise[m_i + 1]
        /\ \A w \in spawned :
               w_morphed'[w] # w_morphed[w] =>
                   /\ pc[w] = "ms_set" /\ locked[w] /\ gil.holder = w
                   /\ pc'[w] # "ms_set"
                   /\ ~promise[w]
                   /\ \A v \in spawned \ {w} : pc'[v] = pc[v]]_vars

\* The first merge brought tiles of worker 1 into the output map, and
\* worker 2 holds tiles of its own.
C8_Witness ==
    /\ num_threads > 1 /\ pc[0] = "m_join" /\ m_i = 0
    /\ morphed # morphed_at_entry
    /\ w_morphed[2] # <<>>
    /\ DOMAIN w_morphed[1] \cap DOMAIN w_morphed[2] = {}

\* The strand the caller works on in the sequential branch is not done.
caller_in_strand == pc[0] \in {"ms_item", "ms_grid", "ms_alloc", "ms_set"}

\* An upper bound of the steps thread t has left in its strand.
strand_steps(t) ==
    8 * (Len(s_strands[t_strand[t] + 1]) - t_i[t] - 1)
    + (IF pc[t] = "ms_item" THEN 8 ELSE IF pc[t] = "ms_grid" THEN 6
       ELSE IF pc[t] = "ms_alloc" THEN 4 ELSE 2)
    - (IF locked[t] THEN 1 ELSE 0)

worker_steps(w) ==
    IF pc[w] = "unspawned" THEN 8
    ELSE IF pc[w] = "w_start" THEN (IF locked[w] THEN 6 ELSE 7)
    ELSE IF pc[w] = "w_claim" THEN (IF locked[w] THEN 3 ELSE 4)
    ELSE IF pc[w] = "w_set_value" THEN 2
    ELSE IF pc[w] = "w_return" THEN 1
    ELSE IF pc[w] = "exited" THEN 0
    ELSE strand_steps(w) + 4

caller_steps ==
    IF pc[0] = "done" THEN 0
    ELSE IF pc[0] = "seq_loop" THEN 1
    ELSE IF caller_in_strand THEN strand_steps(0) + 1
    ELSE IF pc[0] = "m_spawn" THEN 5 * num_threads + 2 - m_i
    ELSE IF pc[0] = "m_wait" THEN 4 * (num_threads - m_i) + 1
    ELSE IF pc[0] = "m_ensure"
         THEN 4 * (num_threads - m_i) - (IF locked[0] THEN 1 ELSE 0)
    ELSE IF pc[0] = "m_join" THEN 4 * (num_threads - m_i) - 2
    ELSE 1

strands_left ==
    IF num_threads > 1
    THEN (IF strand_index < num_strands THEN num_strands - strand_index
          ELSE 0)
    ELSE num_strands - t_strand[0] - (IF caller_in_strand THEN 1 ELSE 0)

RECURSIVE sum_worker_steps(_)
sum_worker_steps(w) ==
    IF w = 0 THEN 0 ELSE worker_steps(w) + sum_worker_steps(w - 1)

\* The length of the longest strand.
max_strand_len ==
    IF s_strands = <<>> THEN 0
    ELSE CHOOSE n \in {Len(s_strands[k]) : k \in DOMAIN s_strands} :
             \A k \in DOMAIN s_strands : Len(s_strands[k]) <= n

\* A bound of the number of steps morph() has left.
Variant ==
    IF pc[0] = "entry"
    THEN (8 * max_strand_len + 4) * (num_strands + 1) + 13 * MaxThreads + 3
    ELSE (8 * max_strand_len + 4) * strands_left + caller_steps
         + sum_worker_steps(num_threads)

\* Some thread can take a step.  SSequential, SStrandOp and SWorkerStart
\* assign a value to every variable once their guard holds.
CanStep ==
    \/ SequentialReady
    \/ \E t \in Threads : StrandOpReady(t) \/ WorkerStartReady(t)
    \/ ENABLED (CallerLightNext \/ \E t \in Threads : LightNext(t))

\* C9: every step of morph() brings it nearer to its return (no run goes on
\* for ever), and until it has returned some thread can take a step (no
\* state is a deadlock, whoever got the lock): scheduled fairly, morph()
\* returns.  When it has, every spawned worker has claimed strands up to
\* the end of the list, set its promise and ended, the caller has merged
\* and joined each of them, and the lock is the caller's again.
C9_MorphTerminates ==
    /\ [][Variant' < Variant]_vars
    /\ [](Variant >= 0)
    /\ [](pc[0] # "done" => CanStep)
    /\ []((pc[0] = "done" /\ num_threads > 1) =>
            /\ \A w \in spawned : pc[w] = "exited" /\ promise[w]
            /\ m_i = num_threads /\ strand_index >= num_strands
            /\ gil = [holder |-> 0, count |-> 1])

\* morph() has returned from its multi-threaded branch after the workers,
\* first held back by the caller's lock, ran all strands.
C9_Witness ==
    /\ pc[0] = "done" /\ num_threads > 1
    /\ strand_index = num_strands + num_threads
    /\ \A w \in spawned : pc[w] = "exited" /\ promise[w] /\ ~locked[w]
    /\ gil = [holder |-> 0, count |-> 1]

\* A tile whose pixels are all zero.
all_zero(buf) == buf_at(buf, 0, 0) = 0 /\ is_uniform(buf)

\* C10: after morph() has returned the output map holds no all-zero tile
\* at a coordinate of the strands.
C10_NoTransparentResult ==
    pc[0] = "done" =>
        \A c \in DOMAIN morphed \ DOMAIN morphed_at_entry :
            ~all_zero(morphed[c])

(***************************************************************************)
(* The kernel without its fast path: a fresh bucket, the full population   *)
(* of the nine-grid of tile coordinate c, MorphBucket::morph.              *)
(***************************************************************************)
full_kernel(c) ==
    MorphBucket_morph(
        [MorphBucket(abs(k_offset)) EXCEPT !.input = full_population(c)],
        FALSE, op_init(k_offset), op_lim(k_offset), op_cmp(k_offset)).dst

reuse_valid ==
    \/ ~k_can_update
    \/ k_i > 0 /\ k_strand[k_i] = <<k_coord[1], k_coord[2] - 1>>

C12_AnyStrand ==
    k_pc = "result" =>
        \A y \in TileIdx : \A x \in TileIdx :
            IF k_offset > 0
            THEN k_result.second.px[y][x] >= k_grid[1].px[y][x]
            ELSE k_result.second.px[y][x] <= k_grid[1].px[y][x]

C12_WitnessFastPath ==
    /\ k_pc = "result" /\ ~k_result.first
    /\ ~is_uniform(k_grid[1])

\* Some pixel of the nine-grid of tile coordinate c that is not zero lies
\* within the disk of radius r around a pixel of the MID tile.
bled_into(c) ==
    \E fp \in {full_population(c)} : \E ds \in {disk(k_mb.radius)} :
        \E y \in TileIdx : \E x \in TileIdx : \E d \in ds :
            fp[y + k_mb.radius + d[2]][x + k_mb.radius + d[1]] # 0

\* C13 as stated: dilating a nine-grid whose MID is the TRANSPARENT tile
\* gives an all-zero result, and the coordinate is left out of the map.
C13_TransparentMidStaysTransparent ==
    (k_pc = "result" /\ k_offset > 0 /\ k_grid[1].ob = "T" /\ reuse_valid)
        => /\ all_zero(k_result.second)
           /\ empty_result(k_offset, k_grid[1], k_result.second)

\* C13: for every radius, dilating a nine-grid whose MID is the TRANSPARENT
\* tile gives an all-zero result, left out of the output map, exactly when
\* no neighbour has a pixel that is not zero within the disk of radius r
\* around a pixel of MID; otherwise the result is not all zero and
\* morph_strand stores it at MID's coordinate.
C13_TransparentMidUnlessBledInto ==
    [][(k_pc = "result" /\ k_pc' = "entry" /\ k_offset > 0
        /\ k_grid[1].ob = "T" /\ reuse_valid)
          => IF bled_into(k_coord)
             THEN /\ ~all_zero(k_result.second)
                  /\ k_coord \in DOMAIN k_morphed'
                  /\ k_morphed'[k_coord] = k_result.second
             ELSE /\ all_zero(k_result.second)
                  /\ k_morphed' = k_morphed]_vars

\* morph_strand has left out the all-zero dilation of a TRANSPARENT tile
\* that has a neighbour which is not empty.
C13_Witness ==
    /\ k_pc = "entry" /\ k_i > 0 /\ k_offset > 0
    /\ nine_grid(k_strand[k_i], k_tiles)[1].ob = "T"
    /\ \E j \in 2..9 : nine_grid(k_strand[k_i], k_tiles)[j].ob # "T"
    /\ ~bled_into(k_strand[k_i])
    /\ k_strand[k_i] \notin DOMAIN k_morphed

\* morph_strand has stored the dilation of a TRANSPARENT tile.
C13_WitnessBled ==
    /\ k_pc = "entry" /\ k_i > 0 /\ k_offset > 0
    /\ nine_grid(k_strand[k_i], k_tiles)[1].ob = "T"
    /\ bled_into(k_strand[k_i])
    /\ k_strand[k_i] \in DOMAIN k_morphed

(***************************************************************************)
(* The nine-grid orders.                                                   *)
(***************************************************************************)
\* NW, N, NE, W, MID, E, SW, S, SE
row_major_offsets ==
    <<<<0 - 1, 0 - 1>>, <<0, 0 - 1>>, <<1, 0 - 1>>,
      <<0 - 1, 0>>,     <<0, 0>>,     <<1, 0>>,
      <<0 - 1, 1>>,     <<0, 1>>,     <<1, 1>>>>

\* MID, N, E, S, W, NE, SE, SW, NW
mid_first_offsets ==
    <<<<0, 0>>, <<0, 0 - 1>>, <<1, 0>>, <<0, 1>>, <<0 - 1, 0>>,
      <<1, 0 - 1>>, <<1, 1>>, <<0 - 1, 1>>, <<0 - 1, 0 - 1>>>>

\* The grid returned has 9 entries, entry i the tile at n_coord + offsets[i]
\* where the map has one and the TRANSPARENT singleton otherwise.
grid_in_order(offsets) ==
    /\ DOMAIN n_grid = 1..9
    /\ \A i \in 1..9 :
          LET c == <<n_coord[1] + offsets[i][1], n_coord[2] + offsets[i][2]>>
          IN  n_grid[i] = IF c \in DOMAIN n_tiles THEN n_tiles[c]
                          ELSE TRANSPARENT_ALPHA_TILE

\* C14 as stated: each nine_grid returns 9 entries in the order NW, N, NE,
\* W, MID, E, SW, S, SE.
C14_BothRowMajor ==
    n_pc \in {"morphology", "fill_common"} => grid_in_order(row_major_offsets)

\* C14: nine_grid of fill_common.cpp returns exactly 9 entries in the order
\* NW, N, NE, W, MID, E, SW, S, SE and nine_grid of morphology.cpp exactly 9
\* entries in the order MID, N, E, S, W, NE, SE, SW, NW; entry i is the tile
\* at c + offsets[i] when the map has it and the TRANSPARENT singleton
\* otherwise, whichever neighbours exist, and the map is left unchanged.
C14_NineGridOrders ==
    /\ [](n_pc = "fill_common" => grid_in_order(row_major_offsets))
    /\ [](n_pc = "morphology" => grid_in_order(mid_first_offsets))
    /\ [][n_tiles' = n_tiles]_vars

\* nine_grid of morphology.cpp has returned for a map that holds the tile
\* and some of its neighbours, not all.
C14_Witness ==
    /\ n_pc = "morphology"
    /\ grid_in_order(mid_first_offsets)
    /\ n_grid[1].ob = "A" /\ n_grid[2].ob = "T" /\ n_grid[9].ob = "A"
    /\ n_grid[1] # n_grid[9]

(***************************************************************************)
(* The corner pairs of no_corner_gaps.                                     *)
(***************************************************************************)
\* The d x d square of tile that starts at (x0, y0) holds a pixel of value 0.
square_has_zero(tile, x0, y0, d) ==
    \E y \in y0..(y0 + d - 1) : \E x \in x0..(x0 + d - 1) : tile.px[y][x] = 0

\* Some pair of corner squares has a zero pixel in each square: NE of W with
\* SW of N, SE of W with NW of S, SE of N with NW of E, NE of S with SW of E.
pair_fires(d, n, e, s, w) ==
    \/ square_has_zero(w, N - d, 0, d) /\ square_has_zero(n, 0, N - d, d)
    \/ square_has_zero(w, N - d, N - d, d) /\ square_has_zero(s, 0, 0, d)
    \/ square_has_zero(n, N - d, N - d, d) /\ square_has_zero(e, 0, 0, d)
    \/ square_has_zero(s, N - d, 0, d) /\ square_has_zero(e, 0, N - d, d)

\* C15: no_corner_gaps returns true if and only if none of the four corner
\* pairs fires, a pair firing when each of its two d x d corner squares
\* holds a zero pixel anywhere in the square.
C15_TrueIffNoPairFires ==
    (d_pc \in {"checked", "done"} /\ d_distance \in 1..N) =>
        (d_no_gaps = TRUE
            <=> ~pair_fires(d_distance, d_grid[2], d_grid[3], d_grid[4],
                            d_grid[5]))

\* C16: if no_corner_gaps returned true, find_gaps with the same distance
\* and neighbours and MID = TRANSPARENT changes no value of the radiuses
\* tile.
C16_NoCornerGapsNoUpdates ==
    (/\ d_pc = "done" /\ d_distance \in 1..N
     /\ d_no_gaps = TRUE /\ d_grid[1] = TRANSPARENT_ALPHA_TILE)
        => d_radiuses = d_radiuses_entry

\* C18: for a distance out of range no_corner_gaps and find_gaps return
\* without having read outside a tile and without having changed the
\* radiuses tile.
C18_OutOfRangeRejected ==
    (d_pc \in {"checked", "done"} /\ d_distance \notin 1..N)
        => ~d_outside /\ d_radiuses = uniform_px(no_distance)

\* The length of the chord of row c of the bucket's structuring element.
chord_length(mb, c) == mb.se_lengths[mb.se_chords[c].length_index + 1]

\* C17 as stated: for radius 1 the structuring element is a 3x3 plus and
\* se_lengths is 1, 3.
C17_PlusWithTwoLengths ==
    (k_pc # "idle" /\ k_mb.radius = 1) =>
        /\ k_mb.se_lengths = <<1, 3>>
        /\ chord_length(k_mb, 0) = 1 /\ k_mb.se_chords[0].x_offset = 0
        /\ chord_length(k_mb, 1) = 3 /\ k_mb.se_chords[1].x_offset = 0 - 1
        /\ chord_length(k_mb, 2) = 1 /\ k_mb.se_chords[2].x_offset = 0

\* C17: for radius 1 the structuring element built by the MorphBucket
\* constructor is the full 3x3 square (each of its three rows is the chord
\* from -1 to 1) and se_lengths is 1, 2, 3: the padding 1, 2 and the one
\* chord length 3.
C17_SquareWithThreeLengths ==
    (k_pc # "idle" /\ k_mb.radius = 1) =>
        /\ k_mb.se_lengths = <<1, 2, 3>>
        /\ DOMAIN k_mb.se_chords = 0..2
        /\ \A c \in 0..2 :
              /\ chord_length(k_mb, c) = 3
              /\ k_mb.se_chords[c].x_offset = 0 - 1

\* The kernel has run with the bucket of radius 1 and some output pixel is
\* not the extremum over the plus around it: a diagonal neighbour decided.
C17_Witness ==
    /\ k_pc = "result" /\ k_result.first /\ k_mb.radius = 1
    /\ k_mb.se_lengths = <<1, 2, 3>>
    /\ \E y \in TileIdx : \E x \in TileIdx :
          k_result.second.px[y][x] #
              extremum({k_mb.input[y + 1 + d[2]][x + 1 + d[1]] :
                          d \in {<<0, 0>>, <<0, 1>>, <<0, 0 - 1>>,
                                  <<1, 0>>, <<0 - 1, 0>>}},
                       op_cmp(k_offset))

\* C19: blurring a nine-grid whose tiles are all uniformly v gives an
\* output tile whose pixels all differ from v by at most 2, for every blur
\* radius and every v in [0, fix15_one].
C19_ConstantWithinTwo ==
    b_calls > 0 =>
        \A y \in BlurIdx : \A x \in BlurIdx :
            /\ b_dst.px[y][x] - b_v <= 2
            /\ b_v - b_dst.px[y][x] <= 2

\* Thread t is in a turn of morph_strand's loop before the kernel is invoked.
before_op(t) == pc[t] \in {"ms_item", "ms_grid", "ms_alloc"}

\* The entry before the current one of thread t's strand.
t_prev_coord(t) == s_strands[t_strand[t] + 1][t_i[t]]

\* The entry before the current one ran the full kernel: the fast path did
\* not answer for its MID tile.
prev_ran_kernel(t) ==
    /\ t_i[t] > 0
    /\ can_skip(abs(s_offset), op_lim(s_offset),
                nine_grid(t_prev_coord(t), s_tiles)[1]) = FALSE

\* C20: in morph_strand the kernel is invoked with can_update = true exactly
\* when the entry before it in the same strand ran the full kernel on the
\* thread's bucket, whether or not its result was dropped; the first entry
\* of every strand is invoked with can_update = false, also when the bucket
\* was used for an earlier strand.
C20_CanUpdateAfterKernelOnly ==
    \A t \in Threads :
        before_op(t) => (t_can_update[t] <=> prev_ran_kernel(t))

\* A thread is about to invoke the kernel for the first entry of a strand
\* with can_update = false and a bucket that an earlier strand populated.
C20_Witness ==
    \E t \in Threads :
        /\ pc[t] = "ms_alloc" /\ t_i[t] = 0 /\ ~t_can_update[t]
        /\ t_bucket[t] # NoBucket
        /\ t_bucket[t].input[0][0] # Uninit

\* A thread is about to invoke the kernel with can_update = true after an
\* entry whose result was dropped.
C20_WitnessDropped ==
    \E t \in Threads :
        /\ pc[t] = "ms_alloc" /\ t_i[t] > 0 /\ t_can_update[t]
        /\ t_prev_coord(t) \notin DOMAIN morphed
        /\ \A w \in Workers : t_prev_coord(t) \notin DOMAIN w_morphed[w]

\* A thread is about to invoke the kernel with can_update = false after an
\* entry that the fast path answered.
C20_WitnessFastPath ==
    \E t \in Threads :
        /\ pc[t] = "ms_alloc" /\ t_i[t] > 0 /\ ~t_can_update[t]

\* The lookup row of padded input row y_px, computed on a table whose cells
\* were never written.
lookup_row(mb, cmp, y_px) ==
    populate_row(mb, MorphBucket(mb.radius).table, cmp, 0, y_px)[0]

\* The call of MorphBucket::morph under way follows, with can_update, the
\* call for the tile directly north.
after_northern_call ==
    /\ k_can_update /\ k_i > 0
    /\ k_strand[k_i] = <<k_coord[1], k_coord[2] - 1>>

\* C21: whenever MorphBucket::morph emits output row y, table slot c holds
\* the lookup row computed from padded input row y + c, for every c in
\* [0, 2r]; this holds when the call rebuilt all rows (can_update = false)
\* and when it started with can_update = true after the call for the
\* northern tile, where one row is populated and rotated in before row 0.
C21_SlotsHoldRowsFromY ==
    (k_pc = "row" /\ (~k_can_update \/ after_northern_call))
        => \A c \in 0..(2 * k_mb.radius) :
               k_mb.table[c] = lookup_row(k_mb, op_cmp(k_offset), k_y + c)

\* Row 0 is about to be emitted by a call that started with can_update =
\* true after the northern tile, on a table whose rows differ.
C21_Witness ==
    /\ k_pc = "row" /\ after_northern_call /\ k_y = 0
    /\ \E c \in 1..(2 * k_mb.radius) : k_mb.table[c] # k_mb.table[0]
    /\ \A c \in 0..(2 * k_mb.radius) :
           k_mb.table[c] = lookup_row(k_mb, op_cmp(k_offset), c)

\* A later row is about to be emitted by a call that rebuilt all rows.
C21_WitnessScratch ==
    /\ k_pc = "row" /\ ~k_can_update /\ k_y = N - 1
    /\ \E c \in 1..(2 * k_mb.radius) : k_mb.table[c] # k_mb.table[0]

\* The tile side of the program, and the radii morph() accepts with it.
RealN == 64
RealRadii == 1..RealN

\* se_lengths starts at 1, increases strictly, and no length is more than
\* twice the one before it.
lengths_cover(se_lengths) ==
    /\ Len(se_lengths) >= 1 /\ se_lengths[1] = 1
    /\ \A i \in 1..(Len(se_lengths) - 1) :
           /\ se_lengths[i] < se_lengths[i + 1]
           /\ se_lengths[i + 1] <= 2 * se_lengths[i]

\* The elements of a set of numbers in increasing order.
ascending(S) ==
    [i \in 1..Cardinality(S) |->
        CHOOSE v \in S : Cardinality({u \in S : u < v}) = i - 1]

\* The lengths the constructor collects for a radius: the pads below the
\* first chord length, then the chord lengths of rows -radius..0, each once
\* (they do not decrease from one row to the next).
lengths_of(radius) ==
    pad_lengths(1, 1 + 2 * x_offs_of(radius, radius))
        \o ascending({1 + 2 * x_offs_of(radius, y) : y \in (0 - radius)..0})

\* lengths_of is se_lengths of the constructor for the radii of the model,
\* and the lengths of all radii of the program start at 1, increase and at
\* most double.
all_lengths_cover ==
    /\ \A r \in 1..N : lengths_of(r) = structuring_element(r).se_lengths
    /\ \A r \in RealRadii : lengths_cover(lengths_of(r))

\* Cell [x][k] of a lookup row is the extremum of len_k inputs from x on.
row_is_extrema(mb, trow, irow, cmp) ==
    \A k \in 0..(Len(mb.se_lengths) - 1) :
        \A x \in 0..(N + 2*mb.radius - mb.se_lengths[k + 1]) :
            trow[x][k]
              = extremum({irow[x + j] : j \in 0..(mb.se_lengths[k + 1] - 1)},
                         cmp)

\* C22: for every radius r in [1, N], after populate_row(row, y_px) every
\* cell table[row][x][k] with 0 <= x <= N + 2r - se_lengths[k] is the
\* extremum of input[y_px][x .. x + se_lengths[k] - 1]; se_lengths is
\* strictly increasing from 1 and each length is at most twice the one
\* before it, so that two windows of the previous length cover the window.
C22_CellsAreWindowExtrema ==
    /\ all_lengths_cover
    /\ k_pc = "row" =>
           /\ lengths_cover(k_mb.se_lengths)
           /\ \A c \in 0..(2 * k_mb.radius) :
                  row_is_extrema(k_mb, k_mb.table[c], k_mb.input[k_y + c],
                                 op_cmp(k_offset))

\* A populated table at the largest radius of the model, with a chord
\* length that is not a power of two and an input row that is not flat.
C22_Witness ==
    /\ k_pc = "row" /\ k_mb.radius = N
    /\ \E i \in 1..Len(k_mb.se_lengths) :
           k_mb.se_lengths[i] \notin {1, 2, 4, 8}
    /\ \E x \in DOMAIN k_mb.input[k_y] :
           k_mb.input[k_y][x] # k_mb.input[k_y][0]
    /\ row_is_extrema(k_mb, k_mb.table[0], k_mb.input[k_y], op_cmp(k_offset))

\* The chords the constructor sets for a radius, given its lengths: row c
\* is |c - radius| rows from the centre, starts x_offs left of it and has
\* the index of its length.
chords_of(radius, lengths) ==
    strict([c \in 0..(2 * radius) |->
        \* the one value of x_offs, bound once
        CHOOSE ch \in {[x_offset |-> 0 - xo,
                        length_index |->
                            (CHOOSE i \in 1..Len(lengths) :
                                lengths[i] = 1 + 2 * xo) - 1] :
                          xo \in {x_offs_of(radius, abs(c - radius))}} : TRUE])

\* With tile side n, every read of the output step for chords and lengths
\* of a radius has its column inside what populate_row wrote for the
\* length index.
reads_in_range(n, radius, se_chords, se_lengths) ==
    \A c \in 0..(2 * radius) :
        /\ se_chords[c].length_index \in 0..(Len(se_lengths) - 1)
        /\ \A x \in {0, n - 1} :
               LET col == x + se_chords[c].x_offset + radius
               IN  /\ 0 <= col
                   /\ col <= n + 2*radius
                               - se_lengths[se_chords[c].length_index + 1]

\* chords_of is se_chords of the constructor for the radii of the model,
\* and the reads of all radii of the program are in range.
all_reads_in_range ==
    /\ \A r \in 1..N :
           chords_of(r, lengths_of(r)) = structuring_element(r).se_chords
    /\ \A r \in RealRadii :
           \E ls \in {lengths_of(r)} :
               \E cs \in {chords_of(r, ls)} :
                   reads_in_range(RealN, r, cs, ls)

\* C23: for every radius r in [1, N], every x in [0, N) and every chord c
\* in [0, 2r], the cell read in the output step,
\* table[c][x + x_offset_c + r][length_index_c], has a column in
\* [0, N + 2r - se_lengths[length_index_c]], the range populate_row wrote
\* for that length index; no unpopulated or out-of-bounds cell is read.
C23_ReadsArePopulated ==
    /\ all_reads_in_range
    /\ k_pc = "row" =>
           /\ reads_in_range(N, k_mb.radius, k_mb.se_chords, k_mb.se_lengths)
           /\ \A c \in 0..(2 * k_mb.radius) : \A x \in TileIdx :
                  /\ x + k_mb.se_chords[c].x_offset + k_mb.radius
                        \in DOMAIN k_mb.table[c]
                  /\ k_mb.table[c][x + k_mb.se_chords[c].x_offset
                                     + k_mb.radius]
                                [k_mb.se_chords[c].length_index] # Uninit

\* An output row is about to be emitted at the largest radius, where the
\* longest chord starts at column 0 and the shortest well inside.
C23_Witness ==
    /\ k_pc = "row" /\ k_mb.radius = N
    /\ k_mb.se_chords[N].x_offset + k_mb.radius = 0
    /\ k_mb.se_chords[0].x_offset + k_mb.radius > 0
    /\ \E x \in DOMAIN k_mb.table[0] :
           k_mb.table[0][x][k_mb.se_chords[N].length_index] = Uninit

\* The pixel of the tile map at global position (gx, gy), 0 where the map
\* has no tile.
map_pixel(tiles, gx, gy) ==
    LET c == <<gx \div N, gy \div N>>
    IN  IF c \in DOMAIN tiles THEN tiles[c].px[gy % N][gx % N] ELSE 0

\* The padded buffer holds the window of the map around tile n_coord.
input_is_window ==
    \A py \in 0..(N + 2*n_radius - 1) : \A px \in 0..(N + 2*n_radius - 1) :
        n_input[py][px] = map_pixel(n_tiles, N*n_coord[1] + px - n_radius,
                                    N*n_coord[2] + py - n_radius)

\* C24: after a nine-grid is gathered for tile coordinate (tx, ty) and
\* copied with from_above = false, every cell input[py][px] of the padded
\* buffer, px and py in [0, N + 2r), is the pixel at global position
\* (N*tx + px - r, N*ty + py - r) of the tile map, 0 where the tile is
\* missing; this holds for nine_grid with copy_nine_grid_section of
\* morphology.cpp and for nine_grid with init_from_nine_grid of
\* fill_common.cpp.
C24_BufferIsMapWindow ==
    n_pc \in {"morphology_copied", "fill_common_copied"} => input_is_window

\* The pair of fill_common.cpp has run at a radius below N for a map that
\* has the tile, its north-western and southern neighbours and lacks the
\* eastern one: MID's pixel (0, 0) is at (r, r).
C24_Witness ==
    /\ n_pc = "fill_common_copied" /\ n_radius \in 1..(N - 1)
    /\ n_coord \in DOMAIN n_tiles
    /\ <<n_coord[1] - 1, n_coord[2] - 1>> \in DOMAIN n_tiles
    /\ <<n_coord[1], n_coord[2] + 1>> \in DOMAIN n_tiles
    /\ <<n_coord[1] + 1, n_coord[2]>> \notin DOMAIN n_tiles
    /\ n_input[n_radius][n_radius] = n_tiles[n_coord].px[0][0]
    /\ n_input[0][0] # 0 /\ n_input[n_radius][N + n_radius] = 0
    /\ input_is_window

\* The pair of morphology.cpp has run at radius N for a map that has all
\* nine tiles.
C24_WitnessMorphology ==
    /\ n_pc = "morphology_copied" /\ n_radius = N
    /\ \A dx \in 0 - 1..1 : \A dy \in 0 - 1..1 :
           <<n_coord[1] + dx, n_coord[2] + dy>> \in DOMAIN n_tiles
    /\ input_is_window

\* C25: process_strands() processes every strand for every strand count:
\* when num_strand_workers() yields 0 or 1 the work is run on the caller's
\* thread without a worker being spawned, and on return the result map
\* holds the result of every strand.
C25_EveryStrandProcessed ==
    p_pc = "returned" =>
        /\ p_result = 0..(p_strands - 1)
        /\ (num_strand_workers(p_hw, p_strands, MinStrandsPerWorker) <= 1
               => p_spawned = 0)

\* process_strands has returned with strands in the list and none of them
\* in the result.
C25_NothingProcessed ==
    p_pc = "returned" /\ p_strands > 0 /\ p_result = {} /\ p_spawned = 0

\* process_strands has returned after a single worker did all the work.
C25_OneWorkerSpawned ==
    /\ p_pc = "returned" /\ p_spawned = 1
    /\ num_strand_workers(p_hw, p_strands, MinStrandsPerWorker) = 1
    /\ p_result = 0..(p_strands - 1)

(***************************************************************************)
(* The octant searches of find_gaps.                                       *)
(***************************************************************************)
\* The calls dist_search(x, y, distance, input, ..., op) that find_gaps makes
\* on the populated buffer, as triples <<x, y, op>>.
search_calls ==
    LET r == d_distance + 1
    IN  {c \in (0..(r + N - 2)) \X (0..(2*r + N - 2))
                \X {"top_right", "top_centr", "bot_centr", "bot_right"} :
            /\ d_bucket.input[c[2]][c[1]] = 0
            /\ c[3] \in {"top_right", "top_centr"} => c[2] >= r
            /\ c[3] \in {"bot_centr", "bot_right"} => c[2] < N + r}

\* The offsets <<xoffs, yoffs>> of the candidate points of a search.
candidate_offsets ==
    {p \in (0..(d_distance + 1)) \X (2..(d_distance + 1)) :
        /\ p[1] <= p[2]
        /\ (p[2] - 1) * (p[2] - 1) + p[1] * p[1] < 1 + d_distance * d_distance}

\* The value of the buffer at the point xo along and yo into the octant.
alpha_at(c, xo, yo) ==
    LET q == rot_op(c[3], c[1], c[2], xo, 0 - yo)
    IN  d_bucket.input[q[2]][q[1]]

\* The upd_dist calls of the search c.
calls_of(c) == dist_search(c[1], c[2], d_distance, d_bucket.input, c[3])

\* The search c goes through its candidate points: it calls upd_dist
\* exactly when one of them is zero.
swept(c) ==
    (calls_of(c) # {}) <=> \E p \in candidate_offsets : alpha_at(c, p[1], p[2]) = 0

\* C26 as stated: when the first two points in the searched direction are
\* both non-zero the search returns at once and updates no distance.
C26_ReturnsWhenBothNonZero ==
    d_pc = "done" =>
        \A c \in search_calls :
            (alpha_at(c, 0, 1) # 0 /\ alpha_at(c, 1, 1) # 0)
                => calls_of(c) = {}

\* C26: in dist_search, when one of the first two points in the searched
\* direction (offsets (0, 1) and (1, 1) from the start pixel) is zero, the
\* search returns at once and updates no distance value; when both are
\* non-zero the octant is swept.
C26_ReturnsWhenEitherZero ==
    d_pc = "done" =>
        \A c \in search_calls :
            IF alpha_at(c, 0, 1) = 0 \/ alpha_at(c, 1, 1) = 0
            THEN calls_of(c) = {}
            ELSE swept(c)

\* find_gaps has made a search whose first two points are non-zero and
\* that found a zero point, and a search that returned at once with only
\* one of the two points zero and a zero point among its candidates.
C26_Witness ==
    /\ d_pc = "done" /\ d_distance \in 1..MaxDistance
    /\ \E c \in search_calls :
           /\ alpha_at(c, 0, 1) # 0 /\ alpha_at(c, 1, 1) # 0
           /\ calls_of(c) # {}
    /\ \E c \in search_calls :
           /\ alpha_at(c, 0, 1) = 0 /\ alpha_at(c, 1, 1) # 0
           /\ \E p \in candidate_offsets : alpha_at(c, p[1], p[2]) = 0
           /\ calls_of(c) = {}

\* The points of the buffer that the search c reads: the two points next
\* to the start pixel and, unless it returns at once, its candidates.
reads_of(c) ==
    {rot_op(c[3], c[1], c[2], 0, 0 - 1), rot_op(c[3], c[1], c[2], 1, 0 - 1)}
    \cup (IF alpha_at(c, 0, 1) = 0 \/ alpha_at(c, 1, 1) = 0 THEN {}
          ELSE {rot_op(c[3], c[1], c[2], p[1], 0 - p[2]) :
                   p \in candidate_offsets})

\* The squared offsets of the candidate points.
squared_offsets ==
    {(p[2] - 1) * (p[2] - 1) + p[1] * p[1] : p \in candidate_offsets}

\* All upd_dist calls of the find_gaps call.
all_calls == UNION {calls_of(c) : c \in search_calls}

\* C27: find_gaps never increases a value of the radii tile and never
\* writes outside it: every write goes to a coordinate (x, y) with
\* 0 <= x, y <= N-1, replaces the current value only by a strictly smaller
\* one, and the value written is a squared offset smaller than 1 + d*d;
\* all reads of the padded alpha buffer during the sweep stay inside its
\* (N + 2d + 2) x (N + 2d + 2) bounds.
C27_RadiiOnlyDecreaseInsideTile ==
    d_pc = "done" =>
        \E calls \in {all_calls} :
            /\ DOMAIN d_radiuses = TileIdx
            /\ \A y \in TileIdx : DOMAIN d_radiuses[y] = TileIdx
            /\ \A m \in calls :
                   m[2] \in squared_offsets /\ m[2] < 1 + d_distance * d_distance
            /\ \A y \in TileIdx : \A x \in TileIdx :
                   \/ d_radiuses[y][x] = d_radiuses_entry[y][x]
                   \/ /\ d_radiuses[y][x] < d_radiuses_entry[y][x]
                      /\ <<<<x, y>>, d_radiuses[y][x]>> \in calls
            /\ \A c \in search_calls : \A q \in reads_of(c) :
                   /\ q[1] \in 0..(N + 2*d_distance + 1)
                   /\ q[2] \in 0..(N + 2*d_distance + 1)

\* find_gaps has returned after upd_dist calls outside the tile, a call
\* that lowered a value written before, a call on a pixel that holds a
\* smaller value and is left alone, and a read in the last column of the
\* buffer.
C27_Witness ==
    /\ d_pc = "done" /\ d_distance \in 2..MaxDistance
    /\ d_radiuses_entry = radiuses_written
    /\ \E m \in all_calls : m[1][1] \notin TileIdx \/ m[1][2] \notin TileIdx
    /\ \E y \in TileIdx : \E x \in TileIdx :
           d_radiuses_entry[y][x] = 5 /\ d_radiuses[y][x] = 4
    /\ \E m \in all_calls :
           /\ m[1][1] \in TileIdx /\ m[1][2] \in TileIdx
           /\ m[2] > d_radiuses_entry[m[1][2]][m[1][1]]
           /\ d_radiuses[m[1][2]][m[1][1]] = d_radiuses_entry[m[1][2]][m[1][1]]
    /\ \E c \in search_calls : \E q \in reads_of(c) :
           q[1] = N + 2*d_distance + 1 \/ q[2] = N + 2*d_distance + 1

====
